---- MODULE Spec2Model ----
(***************************************************************************)
(* A model of the LLTS front end: the scanner (src/src/scanner.ts) that    *)
(* turns a source string into a token sequence, and the recursive-descent  *)
(* parser (src/src/parser/index.ts, the class that starts at line 416)     *)
(* that turns the token sequence into a syntax tree.                       *)
(*                                                                         *)
(* A source string is a sequence of one-character strings.  Token text is  *)
(* a string, built with \o exactly where the code appends characters.      *)
(* null and undefined are the strings Null and Undefined, which are no     *)
(* character.  A failure is recorded as the JavaScript run ends it: a call *)
(* of reportError appends to reports, process.exit(1) sets halt to "exit", *)
(* an uncaught exception sets it to "throw".                               *)
(***************************************************************************)
EXTENDS Integers, Sequences, FiniteSets, TLC

VARIABLES source, phase, pos, line, column, tokens, reports, halt,
          current, statements, doc

vars == <<source, phase, pos, line, column, tokens, reports, halt,
          current, statements, doc>>

Null == "<null>"
Undefined == "<undefined>"

\* With(v, Body) is Body applied to v: a local constant.  The bound variable
\* of the set constructor holds the value of v, so v is evaluated once, also
\* where ENABLED is evaluated for the fairness condition
With(v, Body(_)) == CHOOSE y \in {Body(x) : x \in {v}} : TRUE

RECURSIVE Cat(_)
Cat(cs) == IF cs = <<>> THEN "" ELSE Head(cs) \o Cat(Tail(cs))

(***************************************************************************)
(* Character classes (scanner.ts 81-88) and the shared tables.            *)
(***************************************************************************)
Digits == {"0", "1", "2", "3", "4", "5", "6", "7", "8", "9"}
Letters == {"a", "b", "c", "d", "e", "f", "g", "h", "i", "j", "k", "l", "m",
            "n", "o", "p", "q", "r", "s", "t", "u", "v", "w", "x", "y", "z",
            "A", "B", "C", "D", "E", "F", "G", "H", "I", "J", "K", "L", "M",
            "N", "O", "P", "Q", "R", "S", "T", "U", "V", "W", "X", "Y", "Z"}
Whitespace == {" ", "\t", "\r", "\n", "\f"}
Punctuation == {",", ";", ":", "(", ")", "{", "}", ".", "$", "@", "#", "\"",
                "'", "+", "-", "*", "/", "%", "^", "=", "!", ">", "<", "&",
                "|", "~", "?", "_"}
Chars == Digits \cup Letters \cup Whitespace \cup Punctuation

isAlpha(ch) == ch \in Letters \cup {"_"}
isDigit(ch) == ch \in Digits
isAlphaNumeric(ch) == ch \in Letters \cup Digits \cup {"_"}
HexDigits == Digits \cup {"a", "b", "c", "d", "e", "f", "A", "B", "C", "D", "E", "F"}
BinaryDigits == {"0", "1"}
OctalDigits == {"0", "1", "2", "3", "4", "5", "6", "7"}
TypeChars == Chars \ (Whitespace \cup {"%"})

\* `w in Obj` also finds the names every object inherits from Object.prototype.
ObjectPrototypeNames == {"constructor", "toString", "valueOf", "hasOwnProperty",
                         "isPrototypeOf", "propertyIsEnumerable", "toLocaleString",
                         "__proto__"}
Keywords == {"true", "false", "return"}
isKeyword(w) == w \in Keywords \cup ObjectPrototypeNames
isBool(w) == w = "true" \/ w = "false"
Delimiters == {",", ";", ":", "(", ")", "{", "}", "."}
isDelimiter(ch) == ch \in Delimiters

CompilerSymbols == {"import", "const", "typeOf", "func"}
BinOpValues == {"+", "-", "*", "/", "%", "^", "==", "!=", ">", ">=", "<", "<=",
                "&&", "||"}
UnaryOpValues == {"!", "-"}
\* the assignment operators without the comparison symbols
AssignOpValues_NoComparison == {"=", "+=", "-=", "*=", "/=", "%=", "^=", "&&=", "||="}
AssignOpValues == {"=", "+=", "-=", "*=", "/=", "%=", "^=", "==", "!=", ">=",
                   "<=", "&&=", "||="}

\* PRECEDENCE[op]; 0 - 1 stands for undefined (an operator the table lacks).
PRECEDENCE(op) ==
    CASE op \in {"=", "+=", "-="} -> 1
      [] op = "||" -> 2
      [] op = "&&" -> 3
      [] op \in {"==", "!="} -> 4
      [] op \in {">", ">=", "<", "<="} -> 5
      [] op \in {"+", "-"} -> 6
      [] op \in {"*", "/", "%"} -> 7
      [] op = "^" -> 8
      [] OTHER -> 0 - 1

(***************************************************************************)
(* The scanner.  A scanner state is a record of the closure's variables    *)
(* (pos, line, column, tokens) and of what the run has reported; every     *)
(* scan function is an operator from scanner state to scanner state.      *)
(* Once exited is TRUE the process is gone and nothing more is executed.   *)
(***************************************************************************)
Token(col, ln, type, value) ==
    [type |-> type, value |-> value, line |-> ln, column |-> col]

scanPeek(s, step) ==
    IF s.pos < Len(source)
    THEN (IF s.pos + step < Len(source) THEN source[s.pos + step + 1] ELSE Undefined)
    ELSE Null

\* peek() && ... : null and undefined are falsy, every character is truthy
Truthy(ch) == ch # Null /\ ch # Undefined

scanAdvance(s) ==
    LET ch == IF s.pos < Len(source) THEN source[s.pos + 1] ELSE Undefined
    IN  [s EXCEPT !.pos = @ + 1,
                  !.line = IF ch = "\n" THEN @ + 1 ELSE @,
                  !.column = IF ch = "\n" THEN 1 ELSE @ + 1]

push(s, tok) == [s EXCEPT !.tokens = Append(@, tok)]

error(s, msg, l, c) ==
    [s EXCEPT !.reports = Append(@, [line |-> l, column |-> c, message |-> msg]),
              !.exited = TRUE]

\* while (peek() && peek() in set) advance();
RECURSIVE AdvanceWhile(_, _)
AdvanceWhile(s, set) ==
    IF Truthy(scanPeek(s, 0)) /\ scanPeek(s, 0) \in set
    THEN With(scanAdvance(s), LAMBDA s1 : AdvanceWhile(s1, set))
    ELSE s

\* the characters consumed between two scanner states, appended as the code does
Taken(s, t) == Cat(SubSeq(source, s.pos + 1, t.pos))

handleTypeDecl(s) ==
    With(scanAdvance(s), LAMBDA s0 :
    With(AdvanceWhile(s0, Whitespace), LAMBDA s1 :
    With(AdvanceWhile(s1, TypeChars), LAMBDA s2 :
    With(Taken(s1, s2), LAMBDA type :
        IF type = ""
        THEN error(s2, "Expected type after ':'", s2.line, s.column)
        ELSE With(push(s2, Token(s.column, s2.line, "TYPE_DECL", type)), LAMBDA s3 :
                 AdvanceWhile(s3, Whitespace))))))

\* the loop of scanString: stops at the quote, at end of input, or exits at a newline
RECURSIVE StringBody(_, _)
StringBody(s, quote) ==
    IF scanPeek(s, 0) # quote /\ scanPeek(s, 0) # Null
    THEN IF scanPeek(s, 0) = "\n"
         THEN error(s, "String cannot span multiple lines", s.line, s.column)
         ELSE With(scanAdvance(s), LAMBDA s1 : StringBody(s1, quote))
    ELSE s

\* a string whose start column is read after the opening quote was consumed
scanString_ColumnAfter(s) ==
    With(scanAdvance(s), LAMBDA s1 :
    With(s1.column, LAMBDA startCol :
    With(StringBody(s1, scanPeek(s, 0)), LAMBDA s2 :
        IF s2.exited THEN s2
        ELSE IF scanPeek(s2, 0) = Null
        THEN error(s2, "Unterminated string literal", s2.line, startCol)
        ELSE With(scanAdvance(s2), LAMBDA s3 :
                 push(s3, Token(startCol, s3.line, "STRING", Taken(s1, s2)))))))

scanString(s) ==
    With(scanAdvance(s), LAMBDA s1 :
    With(s1.column - 1, LAMBDA startCol :
    With(StringBody(s1, scanPeek(s, 0)), LAMBDA s2 :
        IF s2.exited THEN s2
        ELSE IF scanPeek(s2, 0) = Null
        THEN error(s2, "Unterminated string literal", s2.line, startCol)
        ELSE With(scanAdvance(s2), LAMBDA s3 :
                 push(s3, Token(startCol, s3.line, "STRING", Taken(s1, s2)))))))

\* a radix literal whose token text is the digits without the radix prefix
RadixNumber_Digits(s, digits, type) ==
    With(scanAdvance(scanAdvance(s)), LAMBDA s0 :
    With(AdvanceWhile(s0, digits), LAMBDA s1 :
        push(s1, Token(s.column, s1.line, type, Taken(s0, s1)))))

RadixNumber(s, digits, type) ==
    With(scanAdvance(scanAdvance(s)), LAMBDA s0 :
    With(AdvanceWhile(s0, digits), LAMBDA s1 :
        push(s1, Token(s.column, s1.line, type, Taken(s, s1)))))

\* a fraction that takes the '.' whether or not a digit follows it
Fraction_AnyDot(s1) ==
    IF scanPeek(s1, 0) = "."
    THEN With(scanAdvance(s1), LAMBDA s2 : AdvanceWhile(s2, Digits))
    ELSE s1

\* the fraction of scanNumber: a '.' is taken only when a digit follows it
Fraction(s1) ==
    IF scanPeek(s1, 0) = "." /\ Truthy(scanPeek(s1, 1)) /\ isDigit(scanPeek(s1, 1))
    THEN With(scanAdvance(s1), LAMBDA s2 : AdvanceWhile(s2, Digits))
    ELSE s1

scanNumber(s) ==
    With(scanPeek(s, 1), LAMBDA next :
        IF scanPeek(s, 0) = "0" /\ next \in {"x", "X"}
        THEN RadixNumber(s, HexDigits, "HEX")
        ELSE IF scanPeek(s, 0) = "0" /\ next \in {"b", "B"}
        THEN RadixNumber(s, BinaryDigits, "BINARY")
        ELSE IF scanPeek(s, 0) = "0" /\ next \in {"o", "O"}
        THEN RadixNumber(s, OctalDigits, "OCTAL")
        ELSE With(AdvanceWhile(s, Digits), LAMBDA s1 :
             With(Fraction(s1), LAMBDA s2 :
                 push(s2, Token(s.column, s2.line, "NUMBER", Taken(s, s2))))))

scanIdentifierOrKeyword(s) ==
    With(AdvanceWhile(s, Letters \cup Digits \cup {"_"}), LAMBDA s1 :
    With(Taken(s, s1), LAMBDA word :
        IF isBool(word) THEN push(s1, Token(s.column, s1.line, "BOOLEAN", word))
        ELSE IF word = "" THEN s1
        ELSE push(s1, Token(s.column, s1.line,
                            IF isKeyword(word) THEN "KEYWORD" ELSE "IDENTIFIER",
                            word))))

scanRegister(s) ==
    With(scanAdvance(s), LAMBDA s1 :
    With(AdvanceWhile(s1, Letters \cup Digits \cup {"_"}), LAMBDA s2 :
    With(Taken(s1, s2), LAMBDA name :
        IF name = ""
        THEN error(s2, "Expected register name after '$'", s2.line, s2.column)
        ELSE With(IF scanPeek(s2, 0) = ":" THEN handleTypeDecl(s2) ELSE s2,
                  LAMBDA s3 :
                 IF s3.exited THEN s3
                 ELSE push(s3, Token(s.column, s3.line, "V_REGISTER", name))))))

scanCompilerKeyword(s) ==
    With(scanAdvance(s), LAMBDA s1 :
    With(AdvanceWhile(s1, Letters \cup Digits \cup {"_"}), LAMBDA s2 :
    With(Taken(s1, s2), LAMBDA kw :
        IF kw = ""
        THEN error(s2, "Expected keyword after '@'", s2.line, s2.column)
        ELSE IF ~(kw \in CompilerSymbols \cup ObjectPrototypeNames)
        THEN error(s2, "Expected compiler keyword after @: not a compiler keyword",
                   s2.line, s.column)
        ELSE push(s2, Token(s.column, s2.line, "COMPILER_KEYWORD", kw)))))

scanDelimiter(s) ==
    With(scanPeek(s, 0), LAMBDA char :
        IF ~Truthy(char) THEN s
        ELSE IF ~isDelimiter(char) THEN s
        ELSE scanAdvance(push(s, Token(s.column, s.line, "DELIMITER", char))))

\* a comment handler that consumes nothing
skipComment_Stay(s) == s

skipComment(s) == AdvanceWhile(s, Chars \ {"\n"})

\* the loop of scanMemberExpression
RECURSIVE MemberChain(_)
MemberChain(s) ==
    IF scanPeek(s, 0) = "."
    THEN With(scanDelimiter(s), LAMBDA s1 :
             IF ~Truthy(scanPeek(s1, 0)) \/ ~isAlphaNumeric(scanPeek(s1, 0))
             THEN error(s1, "Expected identifier after .", s1.line, s1.column)
             ELSE With(scanIdentifierOrKeyword(s1), LAMBDA s2 : MemberChain(s2)))
    ELSE s

scanMemberExpression(s) ==
    IF s.tokens = <<>>
    THEN error(s, "Invalid member expression", s.line, s.column)
    ELSE IF s.tokens[Len(s.tokens)].type \notin {"V_REGISTER", "IDENTIFIER"}
    THEN error(s, "Invalid member expression", s.line, s.column)
    ELSE MemberChain(s)

\* ch + peek(1): string concatenation, "undefined" appended past the end
TwoCharOp(s) ==
    scanPeek(s, 0) \o (IF Truthy(scanPeek(s, 1)) THEN scanPeek(s, 1) ELSE "undefined")

\* one dispatch of scanNext (the code calls itself again in tail position)
\* a member expression follows a register or identifier that ends before a '.'
ThenMember(s1) ==
    IF ~s1.exited /\ scanPeek(s1, 0) = "." THEN scanMemberExpression(s1) ELSE s1

\* a token of n characters that starts at s
Operator(s, n, type, value) ==
    With(IF n = 2 THEN scanAdvance(scanAdvance(s)) ELSE scanAdvance(s), LAMBDA s1 :
        push(s1, Token(s.column, s1.line, type, value)))

scanNext(s) ==
    With(scanPeek(s, 0), LAMBDA ch :
    With(TwoCharOp(s), LAMBDA twoCharOp :
        IF ch \in {" ", "\t", "\r", "\n"} THEN scanAdvance(s)
        ELSE IF ch = "#" THEN skipComment(s)
        ELSE IF ch \in {"\"", "'"} THEN scanString(s)
        ELSE IF ch \in Delimiters THEN scanDelimiter(s)
        ELSE IF ch = "$" THEN With(scanRegister(s), LAMBDA s1 : ThenMember(s1))
        ELSE IF ch = "@" THEN scanCompilerKeyword(s)
        ELSE IF isDigit(ch) THEN scanNumber(s)
        ELSE IF isAlpha(ch)
        THEN With(scanIdentifierOrKeyword(s), LAMBDA s1 : ThenMember(s1))
        ELSE IF twoCharOp \in AssignOpValues
        THEN Operator(s, 2, "ASSIGN_OP", twoCharOp)
        ELSE IF twoCharOp \in BinOpValues
        THEN Operator(s, 2, "BIN_OP", twoCharOp)
        ELSE IF ch \in BinOpValues \cup UnaryOpValues \cup AssignOpValues
        THEN Operator(s, 1, IF ch \in BinOpValues THEN "BIN_OP"
                            ELSE IF ch \in AssignOpValues THEN "ASSIGN_OP"
                            ELSE "UNARY_OP", ch)
        ELSE error(s, "Unexpected character", s.line, s.column)))

(***************************************************************************)
(* Syntax tree nodes.  parent is the nodeName of the node the code stored  *)
(* as parent, or "null".  An absent location is NoLoc, an absent node is   *)
(* NullNode (null) or UndefinedNode (undefined).                           *)
(***************************************************************************)
NullNode == [nodeName |-> "null"]
UndefinedNode == [nodeName |-> "undefined"]
NoLoc == [undefined |-> TRUE]
Loc(tok) == [line |-> tok.line, column |-> tok.column]

\* the members of the enum Literals; any other member reads as undefined
Literals(kind) == IF kind \in {"number", "string", "boolean"} THEN kind ELSE Undefined

LiteralExpression(literal_type, value, loc) ==
    [nodeName |-> "LiteralNode", literal_type |-> literal_type, value |-> value,
     parent |-> "null", loc |-> loc]
PrimaryExpression(kind, name, loc) ==
    [nodeName |-> "PrimaryExpression", kind |-> kind, name |-> name,
     parent |-> "null", loc |-> loc]
MemberExpression(object, property, loc) ==
    [nodeName |-> "MemberExpression", object |-> object, property |-> property,
     parent |-> "null", loc |-> loc]
CallExpression(callee, args, loc) ==
    [nodeName |-> "CallExpression", callee |-> callee, args |-> args,
     parent |-> "null", loc |-> loc]
BinaryExpression(left, operator, right, loc) ==
    [nodeName |-> "BinaryExpression", left |-> left, operator |-> operator,
     right |-> right, parent |-> "null", loc |-> loc]
UnaryExpression(operator, arg, loc) ==
    [nodeName |-> "UnaryExpression", operator |-> operator, arg |-> arg,
     parent |-> "null", loc |-> loc]
AssignmentExpression(left, operator, right, loc) ==
    [nodeName |-> "AssignmentExpression", left |-> left, operator |-> operator,
     right |-> right, parent |-> "null", loc |-> loc]
DeclarationExpression(name, value, isConst, type, loc) ==
    [nodeName |-> "DeclarationNode", name |-> name, value |-> value,
     isConst |-> isConst, type |-> type, parent |-> "null", loc |-> loc]
ImportNode(importPath, loc) ==
    [nodeName |-> "ImportNode", importPath |-> importPath, parent |-> "null",
     loc |-> loc]
\* The node classes below are imported by the parser from "../ast" but are not
\* in the source at hand; their fields are the constructor arguments the parser
\* passes, named as the specification's data model names them.
Params(list) ==
    [nodeName |-> "Params", params |-> list, parent |-> "null", loc |-> NoLoc]
BlockExpression(stmts, parent, loc) ==
    [nodeName |-> "BlockExpression", statements |-> stmts, parent |-> parent,
     loc |-> loc]
ReturnExpression(argument, loc) ==
    [nodeName |-> "ReturnExpression", argument |-> argument, parent |-> "null",
     loc |-> loc]
FunctionDeclaration(name, params, body, loc) ==
    [nodeName |-> "FunctionDeclaration", name |-> name, params |-> params,
     body |-> body, parent |-> "null", loc |-> loc]
DocumentBody(children) ==
    [nodeName |-> "DocumentBody", children |-> children, parent |-> "null",
     loc |-> NoLoc]

\* node.loc of a node that may be undefined (an undefined node has no loc to read)
LocOf(node) == IF "loc" \in DOMAIN node THEN node.loc ELSE NoLoc

(***************************************************************************)
(* The parser's cursor helpers (index.ts 423-467, 994-1000).  A parser     *)
(* state is the cursor `current` (0-based, as in the code) and what the    *)
(* run has reported; tokens is the scanner's result.                       *)
(***************************************************************************)
NullToken == [type |-> Null, value |-> Null, line |-> 0, column |-> 0]

peek(p, step) ==
    IF p.current + step + 1 \in 1..Len(tokens)
    THEN tokens[p.current + step + 1] ELSE NullToken

previous(p) ==
    IF p.current \in 1..Len(tokens) THEN tokens[p.current] ELSE NullToken

isAtEnd(p) == peek(p, 0) = NullToken \/ peek(p, 0).type = "EOF"

check(p, type) == ~isAtEnd(p) /\ peek(p, 0).type = type

\* advance() without the end-of-input guard
advance_PastEnd(p) == [p EXCEPT !.current = @ + 1]

\* advance() moves the cursor; its result is previous() of the state returned
advance(p) == IF ~isAtEnd(p) THEN [p EXCEPT !.current = @ + 1] ELSE p

Halted(p) == p.halt # "none"

reportError(p, l, c, msg) ==
    [p EXCEPT !.reports = Append(@, [line |-> l, column |-> c, message |-> msg])]

exit(p) == [p EXCEPT !.halt = "exit"]

\* throw new Error(...), or a TypeError: nothing catches it
throw(p) == [p EXCEPT !.halt = "throw"]

assert(p, condition, msg, l, c) ==
    IF ~condition THEN exit(reportError(p, l, c, msg)) ELSE p

\* consume(type, message, value) that compares the token's type only
consumeValue_AnyValue(p, type, msg, value) ==
    LET t == peek(p, 0)
        p1 == assert(p, check(p, type) \/ t.type = "EOF", msg, t.line, t.column)
    IN  IF Halted(p1) THEN p1 ELSE advance(p1)

\* consume(type, message, value) that does not pass at the end of the input
consumeValue_Strict(p, type, msg, value) ==
    LET t == peek(p, 0)
        p1 == assert(p, t.value = value /\ check(p, type), msg, t.line, t.column)
    IN  IF Halted(p1) THEN p1 ELSE advance(p1)

\* consume(type, message, value), value given
consumeValue(p, type, msg, value) ==
    LET t == peek(p, 0)
        p1 == assert(p, (t.value = value /\ check(p, type)) \/ t.type = "EOF",
                     msg, t.line, t.column)
    IN  IF Halted(p1) THEN p1 ELSE advance(p1)

\* consume(type, message), no value
consume(p, type) ==
    IF check(p, type) THEN advance(p)
    ELSE IF peek(p, 0) = NullToken THEN p
    ELSE throw(p)

\* match(type): the state after it; it returned check(p, type)
match(p, type) == IF check(p, type) THEN advance(p) ELSE p

Result(p, node) == [p |-> p, node |-> node]

(***************************************************************************)
(* The recursive-descent parser (index.ts 491-991).  Every parse function  *)
(* takes the parser state and returns the state after it and its node.     *)
(* After a process.exit or an uncaught exception (Halted) nothing more of  *)
(* the caller runs, so every caller returns at once with the halted state. *)
(***************************************************************************)
RECURSIVE parseStatement(_)
RECURSIVE parseAssignment(_)
RECURSIVE parseBinary(_, _)
RECURSIVE BinaryLoop(_, _, _)
RECURSIVE parseUnary(_)
RECURSIVE parsePostfix(_)
RECURSIVE PostfixLoop(_, _)
RECURSIVE finishCall(_, _)
RECURSIVE ArgsLoop(_, _)
RECURSIVE parsePrimary(_)
RECURSIVE BlockLoop(_, _)
RECURSIVE ParamsLoop(_, _)

parseExpression(p) == parseAssignment(p)

LiteralTokenTypes == {"BOOLEAN", "STRING", "NUMBER", "HEX", "BINARY", "OCTAL"}

LiteralKind(type) ==
    CASE type = "BOOLEAN" -> Literals("boolean")
      [] type = "STRING" -> Literals("string")
      [] type = "HEX" -> Literals("hex")
      [] type = "BINARY" -> Literals("binary")
      [] type = "OCTAL" -> Literals("octal")
      [] type = "NUMBER" -> Literals("number")

LiteralValue(token) == token.value

parseLiteral(p) ==
    With(advance(p), LAMBDA p1 :
    With(previous(p1), LAMBDA token :
        IF token.type \in LiteralTokenTypes
        THEN Result(p1, LiteralExpression(LiteralKind(token.type), LiteralValue(token),
                                          Loc(token)))
        ELSE Result(exit(reportError(p1, token.line, token.column, "Invalid literal")),
                    NullNode)))

\* the "(" case of parsePrimary, after the expression inside the parentheses
Parenthesized(r) ==
    IF Halted(r.p) THEN r
    ELSE With(consumeValue(r.p, "DELIMITER", "Expected ')'", ")"), LAMBDA p2 :
             IF Halted(p2) THEN Result(p2, NullNode) ELSE Result(p2, r.node))

parsePrimary(p) ==
    With(peek(p, 0), LAMBDA token :
        CASE token.type \in LiteralTokenTypes -> parseLiteral(p)
          [] token.type = "IDENTIFIER" ->
                Result(advance(p), PrimaryExpression("Identifier", token.value, Loc(token)))
          [] token.type = "V_REGISTER" ->
                Result(advance(p), PrimaryExpression("Register", token.value, Loc(token)))
          [] token.type = "DELIMITER" /\ token.value = "(" ->
                With(parseExpression(advance(p)), LAMBDA r : Parenthesized(r))
          [] OTHER -> Result(throw(p), NullNode))

\* do { args.push(parseExpression()) } while (match("DELIMITER") && previous().value === ",")
ArgsLoop(p, args) ==
    With(parseExpression(p), LAMBDA r :
        IF Halted(r.p) THEN [p |-> r.p, args |-> args]
        ELSE With(match(r.p, "DELIMITER"), LAMBDA p1 :
                 IF check(r.p, "DELIMITER") /\ previous(p1).value = ","
                 THEN ArgsLoop(p1, Append(args, r.node))
                 ELSE [p |-> p1, args |-> Append(args, r.node)]))

\* if (this.peek().type === "DELIMITER" && this.peek().value === ")") this.advance();
SkipClosingParen(p) ==
    IF peek(p, 0).type = "DELIMITER" /\ peek(p, 0).value = ")" THEN advance(p) ELSE p

finishCall(p, callee) ==
    With(consumeValue(p, "DELIMITER", "Expected '('", "("), LAMBDA p1 :
        IF Halted(p1) THEN Result(p1, NullNode)
        ELSE With(IF ~(peek(p1, 0).type = "DELIMITER" /\ peek(p1, 0).value = ")")
                  THEN ArgsLoop(p1, <<>>)
                  ELSE [p |-> p1, args |-> <<>>],
                  LAMBDA a :
                 IF Halted(a.p) THEN Result(a.p, NullNode)
                 ELSE Result(SkipClosingParen(a.p),
                             CallExpression(callee, a.args, LocOf(callee)))))

\* a member access with the expression built so far as the property
MemberSuffix_Swapped(expr, prop) ==
    MemberExpression(PrimaryExpression("Identifier", prop.value, NoLoc), expr, LocOf(expr))

\* the suffix a member access adds to the expression built so far
MemberSuffix(expr, prop) ==
    MemberExpression(expr, PrimaryExpression("Identifier", prop.value, NoLoc), LocOf(expr))

\* the while (true) loop of parsePostfix
PostfixLoop(p, expr) ==
    With(peek(p, 0), LAMBDA tok :
        IF Halted(p) THEN Result(p, NullNode)
        ELSE IF tok.type = "DELIMITER" /\ tok.value = "("
        THEN With(finishCall(p, expr), LAMBDA r : PostfixLoop(r.p, r.node))
        ELSE IF tok.type = "DELIMITER" /\ tok.value = "."
        THEN With(consume(advance(p), "IDENTIFIER"), LAMBDA p2 :
                 IF Halted(p2) THEN Result(p2, NullNode)
                 ELSE PostfixLoop(p2, MemberSuffix(expr, previous(p2))))
        ELSE Result(p, expr))

parsePostfix(p) ==
    With(parsePrimary(p), LAMBDA r : PostfixLoop(r.p, r.node))

\* a prefix operator applied to a whole binary expression: binds loosest
parseUnary_Loose(p) ==
    With(peek(p, 0), LAMBDA tok :
        IF tok.type = "UNARY_OP" \/ (tok.type = "BIN_OP" /\ tok.value \in {"+", "-"})
        THEN With(parseBinary(advance(p), 0), LAMBDA r :
                 IF Halted(r.p) THEN r
                 ELSE Result(r.p, UnaryExpression(tok.value, r.node, LocOf(r.node))))
        ELSE parsePostfix(p))

parseUnary(p) ==
    With(peek(p, 0), LAMBDA tok :
        IF tok.type = "UNARY_OP" \/ (tok.type = "BIN_OP" /\ tok.value \in {"+", "-"})
        THEN With(parseUnary(advance(p)), LAMBDA r :
                 IF Halted(r.p) THEN r
                 ELSE Result(r.p, UnaryExpression(tok.value, r.node, LocOf(r.node))))
        ELSE parsePostfix(p))

\* a right operand that never climbs: every operator nests to the left
RightMinPrec_Flat(prec) == 9

\* a right operand that takes operators of the same precedence: nests to the right
RightMinPrec_Same(prec) == prec

\* the threshold of the recursive call that parses the right operand
RightMinPrec(prec) == prec + 1

\* the while (true) loop of parseBinary
BinaryLoop(p, left, minPrec) ==
    With(peek(p, 0), LAMBDA tok :
    With(PRECEDENCE(tok.value), LAMBDA prec :
        IF Halted(p) THEN Result(p, NullNode)
        ELSE IF tok.type # "BIN_OP" THEN Result(p, left)
        ELSE IF prec = 0 - 1 \/ prec < minPrec THEN Result(p, left)
        ELSE With(parseBinary(advance(p), RightMinPrec(prec)), LAMBDA r :
                 IF Halted(r.p) THEN Result(r.p, NullNode)
                 ELSE BinaryLoop(r.p,
                                 BinaryExpression(left, tok.value, r.node, LocOf(left)),
                                 minPrec))))

parseBinary(p, minPrec) ==
    With(parseUnary(p), LAMBDA r : BinaryLoop(r.p, r.node, minPrec))

\* an assignment whose right-hand side is a binary expression: no chain
parseAssignment_NoChain(p) ==
    With(parseBinary(p, 0), LAMBDA r :
    With(peek(r.p, 0), LAMBDA tok :
        IF Halted(r.p) THEN r
        ELSE IF tok.type = "ASSIGN_OP"
        THEN With(parseBinary(advance(r.p), 0), LAMBDA r2 :
                 IF Halted(r2.p) THEN r2
                 ELSE Result(r2.p, AssignmentExpression(r.node, tok.value, r2.node,
                                                        LocOf(r.node))))
        ELSE r))

parseAssignment(p) ==
    With(parseBinary(p, 0), LAMBDA r :
    With(peek(r.p, 0), LAMBDA tok :
        IF Halted(r.p) THEN r
        ELSE IF tok.type = "ASSIGN_OP"
        THEN With(parseAssignment(advance(r.p)), LAMBDA r2 :
                 IF Halted(r2.p) THEN r2
                 ELSE Result(r2.p, AssignmentExpression(r.node, tok.value, r2.node,
                                                        LocOf(r.node))))
        ELSE r))

parseExpressionStatement(p) ==
    With(parseExpression(p), LAMBDA r :
        IF Halted(r.p) THEN r
        ELSE With(consumeValue(r.p, "DELIMITER", "Expected ';' after expression", ";"),
                  LAMBDA p1 :
                 IF Halted(p1) THEN Result(p1, NullNode) ELSE Result(p1, r.node)))

\* the argument of a return statement: absent before a ";"
ReturnArgument(p1) ==
    IF ~check(p1, "DELIMITER") \/ peek(p1, 0).value # ";"
    THEN parseExpression(p1)
    ELSE Result(p1, NullNode)

parseReturnStatement(p) ==
    With(consumeValue(p, "KEYWORD", "Expected return", "return"), LAMBDA p1 :
        IF Halted(p1) THEN Result(p1, NullNode)
        ELSE With(ReturnArgument(p1), LAMBDA r :
                 IF Halted(r.p) THEN Result(r.p, NullNode)
                 ELSE With(consumeValue(r.p, "DELIMITER", "Expected ;", ";"),
                           LAMBDA p2 :
                          IF Halted(p2) THEN Result(p2, NullNode)
                          ELSE Result(p2, ReturnExpression(r.node,
                                                           Loc(previous(p1)))))))

\* the while loop of parseBlock; if (stmt) skips an undefined statement
BlockLoop(p, stmts) ==
    IF ~Halted(p) /\ ~isAtEnd(p)
       /\ ~(peek(p, 0).type = "DELIMITER" /\ peek(p, 0).value = "}")
    THEN With(parseStatement(p), LAMBDA r :
             BlockLoop(r.p, IF Halted(r.p) \/ r.node = UndefinedNode
                            THEN stmts ELSE Append(stmts, r.node)))
    ELSE [p |-> p, stmts |-> stmts]

parseBlock(p) ==
    With(consumeValue(p, "DELIMITER", "Expected '{'", "{"), LAMBDA p1 :
        IF Halted(p1) THEN Result(p1, NullNode)
        ELSE With(BlockLoop(p1, <<>>), LAMBDA b :
                 IF Halted(b.p) THEN Result(b.p, NullNode)
                 ELSE With(consumeValue(b.p, "DELIMITER", "Expected '}'", "}"),
                           LAMBDA p2 :
                          IF Halted(p2) THEN Result(p2, NullNode)
                          ELSE Result(p2, BlockExpression(
                                              b.stmts, "null",
                                              [line |-> peek(p2, 0).line,
                                               column |-> 0])))))

\* a parameter that drops its type annotation
Param_Untyped(name, typed, typeName) ==
    DeclarationExpression(name.value,
                          LiteralExpression(Literals("number"), "0", Loc(name)),
                          FALSE, UndefinedNode, Loc(name))

\* one parameter: new DeclarationExpression(name.value, dummyValue, false, type)
Param(name, typed, typeName) ==
    DeclarationExpression(
        name.value,
        LiteralExpression(Literals("number"), "0", Loc(name)),
        FALSE,
        IF typed
        THEN PrimaryExpression("Identifier", typeName.value, Loc(typeName))
        ELSE UndefinedNode,
        Loc(name))

\* the do ... while loop of parseParamsList
ParamsLoop(p, params) ==
    With(consume(p, "IDENTIFIER"), LAMBDA p1 :
    With(check(p1, "DELIMITER") /\ peek(p1, 0).value = ":", LAMBDA typed :
        IF Halted(p1) THEN [p |-> p1, params |-> params]
        ELSE With(IF typed THEN consume(advance(p1), "IDENTIFIER") ELSE p1,
                  LAMBDA p3 :
                 IF Halted(p3) THEN [p |-> p3, params |-> params]
                 ELSE With(Param(previous(p1), typed, previous(p3)), LAMBDA param :
                      With(match(p3, "DELIMITER"), LAMBDA p4 :
                          IF check(p3, "DELIMITER") /\ previous(p4).value = ","
                          THEN ParamsLoop(p4, Append(params, param))
                          ELSE [p |-> p4, params |-> Append(params, param)])))))

parseParamsList(p) ==
    IF peek(p, 0).type = "DELIMITER" /\ peek(p, 0).value = ")"
    THEN [p |-> advance(p), params |-> <<>>]
    ELSE ParamsLoop(p, <<>>)

\* if (this.check("DELIMITER") && this.peek().value === ":") the return type is read
ReturnType(p) ==
    IF check(p, "DELIMITER") /\ peek(p, 0).value = ":"
    THEN consume(advance(p), "IDENTIFIER")
    ELSE p

\* parseCompilerFunc from the parameter list on
FuncRest(name, pl) ==
    IF Halted(pl.p) THEN Result(pl.p, NullNode)
    ELSE With(ReturnType(pl.p), LAMBDA p3 :
             IF Halted(p3) THEN Result(p3, NullNode)
             ELSE With(parseBlock(p3), LAMBDA b :
                      IF Halted(b.p) THEN Result(b.p, NullNode)
                      ELSE Result(b.p, FunctionDeclaration(
                               name.value,
                               [Params(pl.params) EXCEPT !.parent = "FunctionDeclaration"],
                               [b.node EXCEPT !.parent = "FunctionDeclaration"],
                               Loc(name)))))

parseCompilerFunc(p) ==
    With(advance(p), LAMBDA p1 :
    With(previous(p1), LAMBDA name :
        IF name.type # "IDENTIFIER"
        THEN Result(exit(reportError(p1, name.line, name.column,
                                     "Expected a valid function name")), NullNode)
        ELSE With(consumeValue(p1, "DELIMITER", "Expected ( after function name", "("),
                  LAMBDA p2 :
                 IF Halted(p2) THEN Result(p2, NullNode)
                 ELSE FuncRest(name, parseParamsList(p2)))))

parseCompilerTypof(p) == Result(throw(p), NullNode)

\* the import path token: anything but a STRING is reported, and the run goes on
ImportValue(p2) ==
    IF peek(p2, 0).type # "STRING"
    THEN reportError(p2, peek(p2, 0).line, peek(p2, 0).column, "Unexpected import value")
    ELSE p2

\* parsecompilerImport after the import path has been consumed
ImportRest(p4) ==
    With(assert(p4, peek(p4, 0).value = ")", "Expected ) after import path",
                peek(p4, 0).line, peek(p4, 0).column), LAMBDA p5 :
        IF Halted(p5) THEN Result(p5, NullNode)
        ELSE With(consumeValue(advance(p5), "DELIMITER",
                               "Expected ; after import statement", ";"), LAMBDA p6 :
                 IF Halted(p6) THEN Result(p6, NullNode)
                 ELSE Result(p6, ImportNode(previous(p4).value, Loc(previous(p4))))))

parsecompilerImport(p) ==
    With(assert(p, peek(p, 0).value = "(", "Expected ( after import",
                peek(p, 0).line, peek(p, 0).column), LAMBDA p1 :
        IF Halted(p1) THEN Result(p1, NullNode)
        ELSE ImportRest(advance(ImportValue(advance(p1)))))

parseDeclarationWithType(p, register, isConst) ==
    With(parseStatement(p), LAMBDA r :
        IF Halted(r.p) THEN r
        ELSE Result(r.p, DeclarationExpression(register.value, r.node, isConst,
                                               UndefinedNode, Loc(register))))

\* what parseDeclarationWithoutType parses as the value after "="
DeclarationValue(p) == parseStatement(p)

\* if (this.peek().type === "DELIMITER" && this.peek().value === ";") this.advance();
SkipSemicolon(p) ==
    IF peek(p, 0).type = "DELIMITER" /\ peek(p, 0).value = ";" THEN advance(p) ELSE p

parseDeclarationWithoutType(p, register, isConst) ==
    With(consumeValue(p, "ASSIGN_OP", "Expected = after register", "="), LAMBDA p1 :
        IF Halted(p1) THEN Result(p1, NullNode)
        ELSE With(DeclarationValue(p1), LAMBDA r :
                 IF Halted(r.p) THEN Result(r.p, NullNode)
                 ELSE Result(SkipSemicolon(r.p),
                             DeclarationExpression(register.value, r.node, isConst,
                                                   UndefinedNode, Loc(register)))))

parseDeclaration(p, isConst) ==
    With(consume(p, "V_REGISTER"), LAMBDA p1 :
        IF Halted(p1) THEN Result(p1, NullNode)
        ELSE IF peek(p1, 0).type = "TYPE_DECL"
        THEN parseDeclarationWithType(p1, previous(p1), isConst)
        ELSE parseDeclarationWithoutType(p1, previous(p1), isConst))

parseCompilerConst(p) == parseDeclaration(p, TRUE)

\* a directive name with no case in the switch falls out of it: undefined
parseCompilerKeyword(p) ==
    With(advance(p), LAMBDA p1 :
    With(previous(p1), LAMBDA keyword :
        CASE keyword.value = "import" -> parsecompilerImport(p1)
          [] keyword.value = "const" -> parseCompilerConst(p1)
          [] keyword.value = "typeOf" -> parseCompilerTypof(p1)
          [] keyword.value = "func" -> parseCompilerFunc(p1)
          [] OTHER -> Result(p1, UndefinedNode)))

\* a statement that starts with a register is never a declaration
RegisterIsDeclaration_Never(nextToken) == FALSE

\* the V_REGISTER case of parseStatement: a declaration or an expression statement
RegisterIsDeclaration(nextToken) ==
    nextToken = NullToken \/ nextToken.type = "ASSIGN_OP"

\* the statement kinds of the switch in parseStatement
StatementKind(token, nextToken) ==
    CASE token.type = "V_REGISTER" ->
            IF RegisterIsDeclaration(nextToken) THEN "declaration" ELSE "expression"
      [] token.type \in {"BIN_OP", "UNARY_OP", "ASSIGN_OP", "IDENTIFIER", "STRING",
                         "NUMBER", "HEX", "BINARY", "OCTAL", "BOOLEAN"} -> "expression"
      [] token.type = "KEYWORD" ->
            IF token.value = "return" THEN "return"
            ELSE IF token.value \in {"true", "false"} THEN "expression"
            ELSE "Unexpected keyword"
      [] token.type = "COMPILER_KEYWORD" -> "directive"
      [] OTHER -> "Unexpected token"

parseStatement(p) ==
    With(StatementKind(peek(p, 0), peek(p, 1)), LAMBDA kind :
        CASE kind = "declaration" -> parseDeclaration(p, FALSE)
          [] kind = "expression" -> parseExpressionStatement(p)
          [] kind = "return" -> parseReturnStatement(p)
          [] kind = "directive" -> parseCompilerKeyword(p)
          [] OTHER -> Result(exit(reportError(p, peek(p, 0).line, peek(p, 0).column,
                                              kind)), NullNode))

(***************************************************************************)
(* The inputs.  Corpus holds the programs the documentation names; the     *)
(* generated families are every source of a given shape up to a bound.     *)
(***************************************************************************)
\* 1 + 2 * 3
SrcPrecedence ==
    <<"1", " ", "+", " ", "2", " ", "*", " ", "3">>

\* 1 - 2 - 3
SrcLeftAssoc ==
    <<"1", " ", "-", " ", "2", " ", "-", " ", "3">>

\* $a = $b = 1;
SrcRegisterChain ==
    <<"$", "a", " ", "=", " ", "$", "b", " ", "=", " ", "1", ";">>

\* a = b = 1;
SrcIdentifierChain ==
    <<"a", " ", "=", " ", "b", " ", "=", " ", "1", ";">>

\* -1 + 2
SrcUnaryMinus ==
    <<"-", "1", " ", "+", " ", "2">>

\* $a.b.c()
SrcPostfix ==
    <<"$", "a", ".", "b", ".", "c", "(", ")">>

\* "abc
SrcUnterminated ==
    <<"\"", "a", "b", "c">>

\* $a: i32 = 5;
SrcTypedDeclaration ==
    <<"$", "a", ":", " ", "i", "3", "2", " ", "=", " ", "5", ";">>

\* $a = 5;
SrcDeclaration ==
    <<"$", "a", " ", "=", " ", "5", ";">>

\* $a;
SrcBareRegister ==
    <<"$", "a", ";">>

\* @func add(a: i32, b: i32): i32 { return a + b; }
SrcFunction ==
    <<"@", "f", "u", "n", "c", " ", "a", "d", "d", "(", "a", ":", " ", "i", "3", "2",
      ",", " ", "b", ":", " ", "i", "3", "2", ")", ":", " ", "i", "3", "2", " ", "{",
      " ", "r", "e", "t", "u", "r", "n", " ", "a", " ", "+", " ", "b", ";", " ", "}">>

\* 0xFF; 0b101; 0o17; 1.5; 'hi'; true;
SrcLiterals ==
    <<"0", "x", "F", "F", ";", " ", "0", "b", "1", "0", "1", ";", " ", "0", "o", "1",
      "7", ";", " ", "1", ".", "5", ";", " ", "'", "h", "i", "'", ";", " ", "t", "r",
      "u", "e", ";">>

\* @func main() {\n    $a = 1;\n    $c = add($a, $b);\n    print($c);\n}
SrcProgram ==
    <<"@", "f", "u", "n", "c", " ", "m", "a", "i", "n", "(", ")", " ", "{", "\n", " ",
      " ", " ", " ", "$", "a", " ", "=", " ", "1", ";", "\n", " ", " ", " ", " ", "$",
      "c", " ", "=", " ", "a", "d", "d", "(", "$", "a", ",", " ", "$", "b", ")", ";",
      "\n", " ", " ", " ", " ", "p", "r", "i", "n", "t", "(", "$", "c", ")", ";", "\n",
      "}">>

\* @import("m");
SrcImport ==
    <<"@", "i", "m", "p", "o", "r", "t", "(", "\"", "m", "\"", ")", ";">>

\* @import(foo);
SrcImportIdentifier ==
    <<"@", "i", "m", "p", "o", "r", "t", "(", "f", "o", "o", ")", ";">>

\* f(g(1)); $x = 1;
SrcNestedCall ==
    <<"f", "(", "g", "(", "1", ")", ")", ";", " ", "$", "x", " ", "=", " ", "1", ";">>

\* @while ($a) |b| { }
SrcWhile ==
    <<"@", "w", "h", "i", "l", "e", " ", "(", "$", "a", ")", " ", "|", "b", "|", " ",
      "{", " ", "}">>

\* @while ($a) { }
SrcWhileNoCapture ==
    <<"@", "w", "h", "i", "l", "e", " ", "(", "$", "a", ")", " ", "{", " ", "}">>

\* # c\n$a;
SrcComment ==
    <<"#", " ", "c", "\n", "$", "a", ";">>

\* 1 + 2 3;
SrcMissingSemicolon ==
    <<"1", " ", "+", " ", "2", " ", "3", ";">>

\* 1 + 2
SrcNoSemicolon ==
    <<"1", " ", "+", " ", "2">>

\* $a = return 1;
SrcDeclareReturn ==
    <<"$", "a", " ", "=", " ", "r", "e", "t", "u", "r", "n", " ", "1", ";">>

\* $a.true;
SrcMemberTrue ==
    <<"$", "a", ".", "t", "r", "u", "e", ";">>

\* a.return;
SrcMemberReturn ==
    <<"a", ".", "r", "e", "t", "u", "r", "n", ";">>

\* $a:\ni32 = 5;
SrcTypedNewline ==
    <<"$", "a", ":", "\n", "i", "3", "2", " ", "=", " ", "5", ";">>

\* $a == 1;
SrcRegisterCompare ==
    <<"$", "a", " ", "=", "=", " ", "1", ";">>

Corpus ==
    {SrcPrecedence, SrcLeftAssoc, SrcRegisterChain, SrcIdentifierChain,
     SrcUnaryMinus, SrcPostfix, SrcUnterminated, SrcTypedDeclaration,
     SrcDeclaration, SrcBareRegister, SrcFunction, SrcLiterals,
     SrcProgram, SrcImport, SrcImportIdentifier, SrcNestedCall, SrcWhile,
     SrcWhileNoCapture, SrcComment, SrcMissingSemicolon, SrcNoSemicolon,
     SrcDeclareReturn, SrcMemberTrue, SrcMemberReturn, SrcTypedNewline,
     SrcRegisterCompare}

MaxOps == 2
MaxPrefix == 2
MaxSuffix == 3
MaxLexemes == 4
MaxChars == 4

RECURSIVE Join(_)
Join(parts) == IF parts = <<>> THEN <<>> ELSE Head(parts) \o Join(Tail(parts))

SeqsUpTo(S, n) == UNION {[1..k -> S] : k \in 0..n}

\* "1 op 2 op 3;": operands are the digits in order, operators any of OpLexemes
OpLexemes == {<<"+">>, <<"-">>, <<"*">>, <<"/">>, <<"%">>, <<"^">>, <<">">>, <<"<">>,
              <<"&", "&">>, <<"|", "|">>, <<"=">>, <<"=", "=">>}
DigitChars == <<"1", "2", "3", "4", "5", "6", "7", "8", "9">>
ExprOf(ops) ==
    <<DigitChars[1]>>
    \o Join([i \in 1..Len(ops) |-> <<" ">> \o ops[i] \o <<" ", DigitChars[i + 1]>>])
    \o <<";">>
ExprSources == {ExprOf(ops) : ops \in SeqsUpTo(OpLexemes, MaxOps)}

\* "- ! 1 op - 2;": prefix operators before the operands of one binary operator
PrefixLexemes == {<<"-">>, <<"+">>, <<"!">>}
InfixLexemes == {<<"+">>, <<"-">>, <<"*">>, <<"/">>, <<"%">>, <<"^">>, <<">">>, <<"<">>,
                 <<"&", "&">>, <<"|", "|">>}
UnaryOf(pre, op, pre2) ==
    Join(pre) \o <<"1", " ">> \o op \o <<" ">> \o pre2 \o <<"2", ";">>
UnarySources ==
    {UnaryOf(pre, op, pre2) : pre \in SeqsUpTo(PrefixLexemes, MaxPrefix),
                              op \in InfixLexemes, pre2 \in {<<>>, <<"-">>}}

\* "$a.b().c;": a primary followed by call and member-access suffixes
BaseLexemes == {<<"$", "a">>, <<"a">>, <<"1">>}
SuffixLexemes == {<<".", "b">>, <<".", "c">>, <<"(", ")">>, <<"(", "1", ")">>}
PostfixSources ==
    {base \o Join(sfx) \o <<";">> : base \in BaseLexemes,
                                    sfx \in SeqsUpTo(SuffixLexemes, MaxSuffix)}

\* statements made of registers, identifiers, assignment operators and literals
StatementLexemes == {<<"$", "a">>, <<"b">>, <<"=">>, <<"+", "=">>, <<"5">>, <<";">>}
SpacedJoin(lexemes) == Join([i \in 1..Len(lexemes) |-> lexemes[i] \o <<" ">>])
StatementSources == {SpacedJoin(ls) : ls \in SeqsUpTo(StatementLexemes, MaxLexemes)}

\* every string of at most MaxChars characters over a small alphabet
SourceChars == {"\"", "'", "a", "\n", "0", "x", "1", "."}
CharSources == SeqsUpTo(SourceChars, MaxChars)

\* "@name": a directive, for the names of the directive set and names outside it
DirectiveNames ==
    {<<"i", "m", "p", "o", "r", "t">>, <<"c", "o", "n", "s", "t">>,
     <<"t", "y", "p", "e", "O", "f">>, <<"f", "u", "n", "c">>,
     <<"w", "h", "i", "l", "e">>, <<"f", "o", "r">>,
     <<"c", "o", "n", "s", "t", "r", "u", "c", "t", "o", "r">>,
     <<"t", "o", "S", "t", "r", "i", "n", "g">>, <<"f", "o", "o">>, <<"I", "m", "p", "o", "r", "t">>}
DirectiveSources == {<<"@">> \o name : name \in DirectiveNames}

\* "@import" followed by parentheses, semicolons, strings and identifiers
ImportLexemes == {<<"(">>, <<")">>, <<";">>, <<"'", "m", "'">>, <<"f", "o", "o">>}
ImportSources ==
    {<<"@", "i", "m", "p", "o", "r", "t">> \o Join(ls) :
        ls \in SeqsUpTo(ImportLexemes, MaxLexemes)}

\* "a == b;": two identifiers around a comparison symbol
ComparisonLexemes == {<<"=", "=">>, <<"!", "=">>, <<">", "=">>, <<"<", "=">>}
ComparisonSources ==
    {<<"a", " ">> \o op \o <<" ", "b", ";">> : op \in ComparisonLexemes}

Sources ==
    Corpus \cup ExprSources \cup UnarySources \cup PostfixSources
    \cup StatementSources \cup CharSources \cup DirectiveSources \cup ImportSources
    \cup ComparisonSources

(***************************************************************************)
(* The run: scan(source) one dispatch of scanNext at a time, then parse,   *)
(* one statement of buildAst's loop at a time.                             *)
(***************************************************************************)
Init ==
    /\ source \in Sources
    /\ phase = "scan"
    /\ pos = 0
    /\ line = 1
    /\ column = 1
    /\ tokens = <<>>
    /\ reports = <<>>
    /\ halt = "none"
    /\ current = 0
    /\ statements = <<>>
    /\ doc = NullNode

\* an EOF token placed at the start of the input
EofToken_Start(s) == Token(1, 1, "EOF", "")

\* tokens.push(new Token(column, line, "EOF", ""))
EofToken(s) == Token(s.column, s.line, "EOF", "")

ScannerState ==
    [pos |-> pos, line |-> line, column |-> column, tokens |-> tokens,
     reports |-> reports, exited |-> FALSE]

ParserState == [current |-> current, reports |-> reports, halt |-> halt]

\* one dispatch of scanNext
ScanStep ==
    /\ phase = "scan"
    /\ pos < Len(source)
    /\ \E s \in {scanNext(ScannerState)} :
           /\ pos' = s.pos
           /\ line' = s.line
           /\ column' = s.column
           /\ tokens' = s.tokens
           /\ reports' = s.reports
           /\ halt' = IF s.exited THEN "exit" ELSE "none"
           /\ phase' = IF s.exited THEN "aborted" ELSE "scan"
    /\ UNCHANGED <<source, current, statements, doc>>

\* scanNext returns at the end of the input: scan pushes EOF and returns, and
\* parse stores the tokens and resets the cursor
ScanEnd ==
    /\ phase = "scan"
    /\ pos >= Len(source)
    /\ tokens' = Append(tokens, EofToken(ScannerState))
    /\ current' = 0
    /\ phase' = "parse"
    /\ UNCHANGED <<source, pos, line, column, reports, halt, statements, doc>>

\* one iteration of buildAst's while loop
ParseStep ==
    /\ phase = "parse"
    /\ ~isAtEnd(ParserState)
    /\ \E r \in {parseStatement(ParserState)} :
           /\ current' = r.p.current
           /\ reports' = r.p.reports
           /\ halt' = r.p.halt
           /\ phase' = IF Halted(r.p) THEN "aborted" ELSE "parse"
           /\ statements' = IF Halted(r.p) \/ r.node = UndefinedNode
                            THEN statements
                            ELSE Append(statements, r.node)
    /\ UNCHANGED <<source, pos, line, column, tokens, doc>>

\* buildAst's loop ends: the document root is built and returned
ParseEnd ==
    /\ phase = "parse"
    /\ isAtEnd(ParserState)
    /\ statements' = [i \in 1..Len(statements) |->
                         [statements[i] EXCEPT !.parent = "DocumentBody"]]
    /\ doc' = DocumentBody(statements')
    /\ phase' = "done"
    /\ UNCHANGED <<source, pos, line, column, tokens, reports, halt, current>>

Next == ScanStep \/ ScanEnd \/ ParseStep \/ ParseEnd

Spec == Init /\ [][Next]_vars

(***************************************************************************)
(* What the properties speak of: the structure of a node (its kind, its    *)
(* attributes and its children, without location and parent reference),    *)
(* and where a character of the source lies.                               *)
(***************************************************************************)
RECURSIVE Shape(_)
Shape(n) ==
    LET Each(list) == [i \in 1..Len(list) |-> Shape(list[i])]
    IN  CASE n.nodeName = "LiteralNode" ->
                [nodeName |-> "LiteralNode", literal_type |-> n.literal_type,
                 value |-> n.value]
          [] n.nodeName = "PrimaryExpression" ->
                [nodeName |-> "PrimaryExpression", kind |-> n.kind, name |-> n.name]
          [] n.nodeName = "MemberExpression" ->
                [nodeName |-> "MemberExpression", object |-> Shape(n.object),
                 property |-> Shape(n.property)]
          [] n.nodeName = "CallExpression" ->
                [nodeName |-> "CallExpression", callee |-> Shape(n.callee),
                 args |-> Each(n.args)]
          [] n.nodeName \in {"BinaryExpression", "AssignmentExpression"} ->
                [nodeName |-> n.nodeName, left |-> Shape(n.left),
                 operator |-> n.operator, right |-> Shape(n.right)]
          [] n.nodeName = "UnaryExpression" ->
                [nodeName |-> "UnaryExpression", operator |-> n.operator,
                 arg |-> Shape(n.arg)]
          [] n.nodeName = "DeclarationNode" ->
                [nodeName |-> "DeclarationNode", name |-> n.name, value |-> Shape(n.value),
                 isConst |-> n.isConst, type |-> Shape(n.type)]
          [] n.nodeName = "Params" ->
                [nodeName |-> "Params", params |-> Each(n.params)]
          [] n.nodeName = "BlockExpression" ->
                [nodeName |-> "BlockExpression", statements |-> Each(n.statements)]
          [] n.nodeName = "ReturnExpression" ->
                [nodeName |-> "ReturnExpression", argument |-> Shape(n.argument)]
          [] n.nodeName = "FunctionDeclaration" ->
                [nodeName |-> "FunctionDeclaration", name |-> n.name,
                 params |-> Shape(n.params), body |-> Shape(n.body)]
          [] n.nodeName = "DocumentBody" ->
                [nodeName |-> "DocumentBody", children |-> Each(n.children)]
          [] OTHER -> n

Lit(kind, value) ==
    [nodeName |-> "LiteralNode", literal_type |-> kind, value |-> value]
Reg(name) == [nodeName |-> "PrimaryExpression", kind |-> "Register", name |-> name]
Id(name) == [nodeName |-> "PrimaryExpression", kind |-> "Identifier", name |-> name]
Bin(left, op, right) ==
    [nodeName |-> "BinaryExpression", left |-> left, operator |-> op, right |-> right]
Asg(left, op, right) ==
    [nodeName |-> "AssignmentExpression", left |-> left, operator |-> op, right |-> right]
Un(op, arg) == [nodeName |-> "UnaryExpression", operator |-> op, arg |-> arg]
Mem(object, name) ==
    [nodeName |-> "MemberExpression", object |-> object, property |-> Id(name)]
Call(callee, args) == [nodeName |-> "CallExpression", callee |-> callee, args |-> args]
Decl(name, value, isConst, type) ==
    [nodeName |-> "DeclarationNode", name |-> name, value |-> value,
     isConst |-> isConst, type |-> type]

\* the scan has returned its tokens and the parser has finished or aborted
\* its first statement
FirstStatementOver == phase \in {"done", "aborted"} \/ (phase = "parse" /\ current > 0)
RunOver == phase \in {"done", "aborted"}
FirstStatement == Shape(statements[1])

\* a token that is a whole primary expression, and the node it stands for
IsOperand(tok) == tok.type \in LiteralTokenTypes \cup {"IDENTIFIER", "V_REGISTER"}
OperandShape(tok) ==
    CASE tok.type = "IDENTIFIER" -> Id(tok.value)
      [] tok.type = "V_REGISTER" -> Reg(tok.value)
      [] OTHER -> Lit(LiteralKind(tok.type), tok.value)
IsDelim(tok, ch) == tok.type = "DELIMITER" /\ tok.value = ch
\* the statement ends at token i: ";" then EOF, or EOF at once
EndsAt(i) ==
    \/ Len(tokens) = i /\ tokens[i].type = "EOF"
    \/ Len(tokens) = i + 1 /\ IsDelim(tokens[i], ";") /\ tokens[i + 1].type = "EOF"

\* tokens are: operand BIN_OP operand BIN_OP operand, then the end
BinaryChainTokens ==
    /\ Len(tokens) >= 6
    /\ IsOperand(tokens[1]) /\ tokens[2].type = "BIN_OP"
    /\ IsOperand(tokens[3]) /\ tokens[4].type = "BIN_OP"
    /\ IsOperand(tokens[5]) /\ EndsAt(6)

(***************************************************************************)
(* C1  Precedence climbing: when the tokens are  a op1 b op2 c  with BIN_OP *)
(* operators and PRECEDENCE[op2] > PRECEDENCE[op1], the statement parses,   *)
(* without abort, to the binary node op1 whose left operand is a and whose  *)
(* right operand is the binary node (b op2 c); "1 + 2 * 3" has + at the     *)
(* root and the * node as its right operand.                                *)
(***************************************************************************)
PrecedenceClimbing ==
    /\ (FirstStatementOver /\ BinaryChainTokens
        /\ PRECEDENCE(tokens[4].value) > PRECEDENCE(tokens[2].value))
       => /\ phase # "aborted"
          /\ Len(statements) = 1
          /\ FirstStatement =
                Bin(OperandShape(tokens[1]), tokens[2].value,
                    Bin(OperandShape(tokens[3]), tokens[4].value,
                        OperandShape(tokens[5])))
    /\ (source = SrcPrecedence /\ RunOver)
       => /\ phase = "done"
          /\ Shape(doc).children =
                <<Bin(Lit("number", "1"), "+",
                      Bin(Lit("number", "2"), "*", Lit("number", "3")))>>

PrecedenceClimbingWitness ==
    /\ phase = "done"
    /\ BinaryChainTokens
    /\ tokens[2].value = "||" /\ tokens[4].value = "&&"
    /\ FirstStatement.operator = "||"
    /\ FirstStatement.right.operator = "&&"

(***************************************************************************)
(* C2  Left associativity: when the tokens are  a op1 b op2 c  with BIN_OP  *)
(* operators of equal precedence (op1 = op2 included), the statement parses *)
(* to the binary node op2 whose left operand is the binary node (a op1 b)   *)
(* and whose right operand is c; "1 - 2 - 3" parses to (1 - 2) - 3.         *)
(***************************************************************************)
LeftAssociativity ==
    /\ (FirstStatementOver /\ BinaryChainTokens
        /\ PRECEDENCE(tokens[4].value) = PRECEDENCE(tokens[2].value))
       => /\ phase # "aborted"
          /\ Len(statements) = 1
          /\ FirstStatement =
                Bin(Bin(OperandShape(tokens[1]), tokens[2].value,
                        OperandShape(tokens[3])),
                    tokens[4].value, OperandShape(tokens[5]))
    /\ (source = SrcLeftAssoc /\ RunOver)
       => /\ phase = "done"
          /\ Shape(doc).children =
                <<Bin(Bin(Lit("number", "1"), "-", Lit("number", "2")), "-",
                      Lit("number", "3"))>>

LeftAssociativityWitness ==
    /\ phase = "done"
    /\ BinaryChainTokens
    /\ tokens[2].value = "*" /\ tokens[4].value = "%"
    /\ FirstStatement.operator = "%"
    /\ FirstStatement.left.operator = "*"

\* tokens are: operand ASSIGN_OP operand ASSIGN_OP operand, then the end
AssignChainTokens ==
    /\ Len(tokens) >= 6
    /\ IsOperand(tokens[1]) /\ tokens[2].type = "ASSIGN_OP"
    /\ IsOperand(tokens[3]) /\ tokens[4].type = "ASSIGN_OP"
    /\ IsOperand(tokens[5]) /\ EndsAt(6)

IsPrefixOp(tok) ==
    tok.type = "UNARY_OP" \/ (tok.type = "BIN_OP" /\ tok.value \in {"+", "-"})

\* the number of prefix operators in a row from token i on
RECURSIVE PrefixRun(_)
PrefixRun(i) ==
    IF i <= Len(tokens) /\ IsPrefixOp(tokens[i]) THEN 1 + PrefixRun(i + 1) ELSE 0

\* the n prefix operators from token i on, applied to operand innermost last
RECURSIVE WrapUnary(_, _, _)
WrapUnary(i, n, operand) ==
    IF n = 0 THEN operand
    ELSE Un(tokens[i].value, WrapUnary(i + 1, n - 1, operand))

\* where the two operands and the operator of  pre.. a op pre.. b  lie
UnaryLeft == PrefixRun(1) + 1
UnaryRight == UnaryLeft + 2 + PrefixRun(UnaryLeft + 2)

\* tokens are: prefix operators, operand, BIN_OP, prefix operators, operand, the end
UnaryChainTokens ==
    /\ UnaryLeft + 1 <= Len(tokens)
    /\ IsOperand(tokens[UnaryLeft])
    /\ tokens[UnaryLeft + 1].type = "BIN_OP"
    /\ UnaryRight + 1 <= Len(tokens)
    /\ IsOperand(tokens[UnaryRight])
    /\ EndsAt(UnaryRight + 1)
    /\ PrefixRun(1) + PrefixRun(UnaryLeft + 2) > 0

(***************************************************************************)
(* C4  Unary/binary overload: when the tokens are prefix operators          *)
(* (UNARY_OP, or BIN_OP "+" or "-" in operand position), an operand, a      *)
(* BIN_OP, prefix operators and an operand, the statement parses to the     *)
(* binary node of that BIN_OP whose operands are the operands wrapped in    *)
(* their prefix operators: a prefix operator binds tighter than every      *)
(* binary operator.  "-1 + 2" parses to the binary + whose left operand is  *)
(* unary - applied to literal 1 and whose right operand is literal 2.       *)
(***************************************************************************)
UnaryBindsTighter ==
    /\ (FirstStatementOver /\ UnaryChainTokens)
       => /\ phase # "aborted"
          /\ Len(statements) = 1
          /\ FirstStatement =
                Bin(WrapUnary(1, PrefixRun(1), OperandShape(tokens[UnaryLeft])),
                    tokens[UnaryLeft + 1].value,
                    WrapUnary(UnaryLeft + 2, PrefixRun(UnaryLeft + 2),
                              OperandShape(tokens[UnaryRight])))
    /\ (source = SrcUnaryMinus /\ RunOver)
       => /\ phase = "done"
          /\ Shape(doc).children =
                <<Bin(Un("-", Lit("number", "1")), "+", Lit("number", "2"))>>

UnaryBindsTighterWitness ==
    /\ phase = "done"
    /\ UnaryChainTokens
    /\ tokens[1].type = "BIN_OP" /\ tokens[1].value = "-"
    /\ tokens[3].value = "*"
    /\ FirstStatement.operator = "*"
    /\ FirstStatement.left.nodeName = "UnaryExpression"
    /\ FirstStatement.left.operator = "-"

\* the suffixes from token i on applied, left to right, to the expression built
\* so far: ". name", "( )" and "( operand )"
RECURSIVE Suffixes(_, _)
Suffixes(i, expr) ==
    IF i + 1 <= Len(tokens) /\ IsDelim(tokens[i], ".")
       /\ tokens[i + 1].type = "IDENTIFIER"
    THEN Suffixes(i + 2, Mem(expr, tokens[i + 1].value))
    ELSE IF i + 1 <= Len(tokens) /\ IsDelim(tokens[i], "(") /\ IsDelim(tokens[i + 1], ")")
    THEN Suffixes(i + 2, Call(expr, <<>>))
    ELSE IF i + 2 <= Len(tokens) /\ IsDelim(tokens[i], "(") /\ IsOperand(tokens[i + 1])
            /\ IsDelim(tokens[i + 2], ")")
    THEN Suffixes(i + 3, Call(expr, <<OperandShape(tokens[i + 1])>>))
    ELSE [end |-> i, node |-> expr]

\* tokens are: operand, at least one suffix, then the end
PostfixChainTokens ==
    /\ Len(tokens) >= 3
    /\ IsOperand(tokens[1])
    /\ Suffixes(2, OperandShape(tokens[1])).end > 2
    /\ EndsAt(Suffixes(2, OperandShape(tokens[1])).end)

(***************************************************************************)
(* C5  Postfix chaining: when the tokens are a primary expression followed  *)
(* by call and member-access suffixes, the statement parses to the         *)
(* suffixes applied left to right, each wrapping the expression built so   *)
(* far.  "$a.b.c()" scans and parses to the call node with no arguments    *)
(* whose callee is member access .c over member access .b over register a.  *)
(***************************************************************************)
PostfixChaining ==
    /\ (FirstStatementOver /\ PostfixChainTokens)
       => /\ phase # "aborted"
          /\ Len(statements) = 1
          /\ FirstStatement = Suffixes(2, OperandShape(tokens[1])).node
    /\ (source = SrcPostfix /\ RunOver)
       => /\ phase = "done"
          /\ Shape(doc).children = <<Call(Mem(Mem(Reg("a"), "b"), "c"), <<>>)>>

PostfixChainingWitness ==
    /\ source = SrcPostfix
    /\ phase = "done"
    /\ PostfixChainTokens
    /\ FirstStatement.nodeName = "CallExpression"
    /\ FirstStatement.callee.nodeName = "MemberExpression"
    /\ FirstStatement.callee.object.nodeName = "MemberExpression"
    /\ FirstStatement.callee.object.object = Reg("a")

(***************************************************************************)
(* C6  Typed declaration: the source "$a: i32 = 5;" is scanned and parsed   *)
(* without error into a single declaration node for register a.            *)
(***************************************************************************)
TypedDeclaration ==
    (source = SrcTypedDeclaration /\ RunOver)
    => /\ phase = "done"
       /\ reports = <<>>
       /\ Len(statements) = 1
       /\ FirstStatement.nodeName = "DeclarationNode"
       /\ FirstStatement.name = "a"

\* what the run of "$a: i32 = 5;" ends in: the TYPE_DECL token comes first,
\* parseStatement has no case for it, and the parser exits
TypedDeclarationAborts ==
    /\ source = SrcTypedDeclaration
    /\ phase = "aborted"
    /\ tokens[1].type = "TYPE_DECL" /\ tokens[2].type = "V_REGISTER"
    /\ statements = <<>>
    /\ reports = <<[line |-> 1, column |-> 3, message |-> "Unexpected token"]>>

(***************************************************************************)
(* C7  Declaration disambiguation: a statement that starts with a          *)
(* V_REGISTER token and yields a node yields a declaration node exactly    *)
(* when the next token is an ASSIGN_OP, and the expression it starts       *)
(* otherwise.  "$a = 5;" yields the declaration node of a, not const, with  *)
(* value literal 5; "$a;" yields the register reference a.                  *)
(***************************************************************************)
DeclarationDisambiguation ==
    /\ (FirstStatementOver /\ Len(tokens) >= 2 /\ tokens[1].type = "V_REGISTER"
        /\ Len(statements) >= 1)
       => /\ FirstStatement.nodeName = "DeclarationNode"
             <=> tokens[2].type = "ASSIGN_OP"
          /\ FirstStatement.nodeName = "DeclarationNode"
             => FirstStatement.name = tokens[1].value /\ ~FirstStatement.isConst
    /\ (FirstStatementOver /\ Len(tokens) >= 4 /\ tokens[1].type = "V_REGISTER"
        /\ tokens[2].type = "ASSIGN_OP" /\ tokens[2].value = "="
        /\ tokens[3].type = "NUMBER" /\ EndsAt(4))
       => /\ phase # "aborted"
          /\ Len(statements) = 1
          /\ FirstStatement = Decl(tokens[1].value, OperandShape(tokens[3]), FALSE,
                                   UndefinedNode)
    /\ (source = SrcDeclaration /\ RunOver)
       => /\ phase = "done"
          /\ Shape(doc).children =
                <<Decl("a", Lit("number", "5"), FALSE, UndefinedNode)>>
    /\ (source = SrcBareRegister /\ RunOver)
       => /\ phase = "done"
          /\ Shape(doc).children = <<Reg("a")>>

DeclarationDisambiguationWitness ==
    /\ source = SrcDeclaration
    /\ phase = "done"
    /\ tokens[1].type = "V_REGISTER" /\ tokens[2].type = "ASSIGN_OP"
    /\ FirstStatement.nodeName = "DeclarationNode"
    /\ FirstStatement.value = Lit("number", "5")

(***************************************************************************)
(* C8  Function round-trip: "@func add(a: i32, b: i32): i32 { return a +    *)
(* b; }" parses to exactly one top-level function-declaration node named   *)
(* add, whose parameter list holds the declaration nodes of a and b, each  *)
(* with the type annotation identifier i32 and the placeholder literal 0,  *)
(* and whose body block holds exactly one return node whose argument is    *)
(* the binary + over the identifier references a and b.                     *)
(***************************************************************************)
FunctionRoundTrip ==
    (source = SrcFunction /\ RunOver)
    => /\ phase = "done"
       /\ reports = <<>>
       /\ Shape(doc).children =
             <<[nodeName |-> "FunctionDeclaration",
                name |-> "add",
                params |-> [nodeName |-> "Params",
                            params |-> <<Decl("a", Lit("number", "0"), FALSE, Id("i32")),
                                         Decl("b", Lit("number", "0"), FALSE, Id("i32"))>>],
                body |-> [nodeName |-> "BlockExpression",
                          statements |->
                              <<[nodeName |-> "ReturnExpression",
                                 argument |-> Bin(Id("a"), "+", Id("b"))]>>]]>>

FunctionRoundTripWitness ==
    /\ source = SrcFunction
    /\ phase = "done"
    /\ Len(statements) = 1
    /\ FirstStatement.nodeName = "FunctionDeclaration"
    /\ Len(FirstStatement.params.params) = 2
    /\ Len(FirstStatement.body.statements) = 1

\* the line and the column of the i-th character of the source, counted from
\* the text itself: a newline ends a line
LineAt(i) == 1 + Cardinality({j \in 1..(i - 1) : source[j] = "\n"})
LineStart(i) ==
    CHOOSE j \in 0..(i - 1) :
        /\ j = 0 \/ source[j] = "\n"
        /\ \A k \in (j + 1)..(i - 1) : source[k] # "\n"
ColumnAt(i) == i - LineStart(i)

\* the scanner is at an opening quote that has no matching quote and no newline
\* between it and the end of the input
AtUnterminatedString ==
    /\ phase = "scan"
    /\ pos < Len(source)
    /\ source[pos + 1] \in {"\"", "'"}
    /\ \A i \in (pos + 2)..Len(source) : source[i] # source[pos + 1] /\ source[i] # "\n"

(***************************************************************************)
(* C9  Unterminated string: when the scanner meets an opening quote and    *)
(* the input ends before the matching quote, with no newline in between,   *)
(* its next step aborts the run with the fatal diagnostic "Unterminated    *)
(* string literal" at the line and column of the opening quote, pushes no  *)
(* token, and the tokens are never handed to the parser.                   *)
(***************************************************************************)
UnterminatedString ==
    [][AtUnterminatedString
       => /\ phase' = "aborted"
          /\ halt' = "exit"
          /\ tokens' = tokens
          /\ reports' = Append(reports,
                               [line |-> LineAt(pos + 1), column |-> ColumnAt(pos + 1),
                                message |-> "Unterminated string literal"])
          /\ statements' = <<>> /\ doc' = NullNode]_vars

UnterminatedStringWitness ==
    /\ phase = "aborted"
    /\ Len(source) >= 3
    /\ Len(reports) = 1
    /\ reports[1].message = "Unterminated string literal"
    /\ reports[1].line = 2
    /\ reports[1].column = 2
    /\ \A i \in 1..Len(tokens) : tokens[i].type # "STRING"

\* where the character at a line and column of the source lies
IndexAt(l, c) ==
    CHOOSE i \in 1..(Len(source) + 1) : LineAt(i) = l /\ ColumnAt(i) = c

\* the source text of n characters from index i on
TextAt(i, n) == Cat(SubSeq(source, i, i + n - 1))

\* whether character i, the one after a literal that starts at character start,
\* would still belong to the literal
Continues(type, start, i) ==
    /\ i <= Len(source)
    /\ CASE type = "HEX" -> source[i] \in HexDigits
         [] type = "BINARY" -> source[i] \in BinaryDigits
         [] type = "OCTAL" -> source[i] \in OctalDigits
         [] type = "BOOLEAN" -> isAlphaNumeric(source[i])
         [] type = "NUMBER" ->
               \/ isDigit(source[i])
               \/ /\ \A k \in start..(i - 1) : source[k] # "."
                  /\ source[i] = "."
                  /\ i + 1 <= Len(source) /\ isDigit(source[i + 1])
         [] OTHER -> FALSE

\* a literal token's text is the whole lexeme that starts at the token's
\* position: for a string the text between the quotes, otherwise the literal
\* as written, radix prefix included
KeepsLexeme(tok) ==
    LET i == IndexAt(tok.line, tok.column)
        n == Len(tok.value)
    IN  IF tok.type = "STRING"
        THEN /\ source[i] \in {"\"", "'"}
             /\ i + n + 1 <= Len(source)
             /\ tok.value = TextAt(i + 1, n)
             /\ source[i + n + 1] = source[i]
             /\ \A k \in (i + 1)..(i + n) : source[k] # source[i]
        ELSE /\ n >= 1
             /\ tok.value = TextAt(i, n)
             /\ ~Continues(tok.type, i, i + n)
             /\ tok.type = "HEX" => n >= 2 /\ source[i + 1] \in {"x", "X"}
             /\ tok.type = "BINARY" => n >= 2 /\ source[i + 1] \in {"b", "B"}
             /\ tok.type = "OCTAL" => n >= 2 /\ source[i + 1] \in {"o", "O"}

\* the literal nodes the parser built from tokens; the placeholder values of a
\* parameter list are built from no token
RECURSIVE LiteralNodes(_)
LiteralNodes(n) ==
    LET Each(list) == UNION {LiteralNodes(list[i]) : i \in 1..Len(list)}
    IN  CASE n.nodeName = "LiteralNode" -> {n}
          [] n.nodeName = "MemberExpression" ->
                LiteralNodes(n.object) \cup LiteralNodes(n.property)
          [] n.nodeName = "CallExpression" -> LiteralNodes(n.callee) \cup Each(n.args)
          [] n.nodeName \in {"BinaryExpression", "AssignmentExpression"} ->
                LiteralNodes(n.left) \cup LiteralNodes(n.right)
          [] n.nodeName = "UnaryExpression" -> LiteralNodes(n.arg)
          [] n.nodeName = "DeclarationNode" -> LiteralNodes(n.value)
          [] n.nodeName = "FunctionDeclaration" -> LiteralNodes(n.body)
          [] n.nodeName = "BlockExpression" -> Each(n.statements)
          [] n.nodeName = "ReturnExpression" -> LiteralNodes(n.argument)
          [] OTHER -> {}

ParsedLiterals == UNION {LiteralNodes(statements[i]) : i \in 1..Len(statements)}

LiteralTokens == {i \in 1..Len(tokens) : tokens[i].type \in LiteralTokenTypes}

(***************************************************************************)
(* C10  Literal text round-trip: every literal token keeps its source      *)
(* lexeme unchanged (the radix prefix of a hex, binary or octal literal,   *)
(* the full integer or decimal text of a number, the text between the      *)
(* quotes of a string), and every literal node the parser builds from a    *)
(* token carries that token's text as its value.                           *)
(***************************************************************************)
LiteralRoundTrip ==
    /\ \A i \in LiteralTokens : KeepsLexeme(tokens[i])
    /\ \A n \in ParsedLiterals :
          \E i \in LiteralTokens :
              /\ Loc(tokens[i]) = n.loc
              /\ n.value = tokens[i].value
    /\ (source = SrcLiterals /\ RunOver)
       => /\ phase = "done"
          /\ [i \in 1..Len(statements) |-> statements[i].nodeName] =
                [i \in 1..6 |-> "LiteralNode"]
          /\ [i \in 1..Len(statements) |-> statements[i].value] =
                <<"0xFF", "0b101", "0o17", "1.5", "hi", "true">>

LiteralRoundTripWitness ==
    /\ phase = "done"
    /\ Len(statements) = 1
    /\ statements[1].nodeName = "LiteralNode"
    /\ tokens[1].type = "HEX"
    /\ statements[1].value = "0x1"
    /\ source = <<"0", "x", "1">>

\* scan has returned its token sequence: the parser holds it
ScanReturned == phase \in {"parse", "done"} \/ (phase = "aborted" /\ current > 0)

\* the token sequence ends with its only EOF token, which has no text and lies
\* at the end of the input
EndsWithOneEof ==
    /\ Len(tokens) >= 1
    /\ tokens[Len(tokens)] =
          [type |-> "EOF", value |-> "", line |-> LineAt(Len(source) + 1),
           column |-> ColumnAt(Len(source) + 1)]
    /\ tokens[Len(tokens)].line = line /\ tokens[Len(tokens)].column = column
    /\ pos = Len(source)
    /\ \A i \in 1..(Len(tokens) - 1) : tokens[i].type # "EOF"

(***************************************************************************)
(* C11  Every token sequence returned by scan holds exactly one EOF token:  *)
(* it is the last element, its text is empty, and its line and column are  *)
(* the scanner's final cursor line and column, the position after the last *)
(* character.  The step in which scan returns appends it, for every input  *)
(* on which scan completes, the empty source included, and the parser      *)
(* never changes the tokens.                                               *)
(***************************************************************************)
OneEofToken ==
    /\ [](ScanReturned => EndsWithOneEof)
    /\ [][(phase = "scan" /\ phase' = "parse")
          => /\ pos = Len(source)
             /\ \A i \in 1..Len(tokens) : tokens[i].type # "EOF"
             /\ tokens' = Append(tokens, [type |-> "EOF", value |-> "",
                                          line |-> line, column |-> column])]_vars
    /\ [][phase # "scan" => tokens' = tokens]_vars

OneEofTokenWitness ==
    /\ phase = "done"
    /\ Len(tokens) >= 3
    /\ tokens[Len(tokens)].type = "EOF"
    /\ tokens[Len(tokens)].line = 2
    /\ tokens[Len(tokens)].column = 2
    /\ EndsWithOneEof

\* token i lies at or before token j in the source
NotAfter(i, j) ==
    \/ tokens[i].line < tokens[j].line
    \/ tokens[i].line = tokens[j].line /\ tokens[i].column <= tokens[j].column

(***************************************************************************)
(* C12  In every token sequence returned by scan the (line, column) pairs   *)
(* are non-decreasing in sequence order: a token that comes before another *)
(* lies on an earlier line, or on the same line at a column that is not    *)
(* greater; registers with a type annotation included.                     *)
(***************************************************************************)
TokensInSourceOrder ==
    ScanReturned
    => \A i \in 1..Len(tokens) : \A j \in i..Len(tokens) : NotAfter(i, j)

\* the tokens of "$a: i32 = 5;": the type annotation comes before its register
TypeBeforeRegister ==
    /\ source = SrcTypedDeclaration
    /\ ScanReturned \/ phase = "aborted"
    /\ Len(tokens) = 6
    /\ tokens[1].type = "TYPE_DECL" /\ tokens[1].line = 1 /\ tokens[1].column = 3
    /\ tokens[2].type = "V_REGISTER" /\ tokens[2].line = 1 /\ tokens[2].column = 1

(***************************************************************************)
(* C13  Fail-fast in both phases: once an error has been reported the run   *)
(* has ended there: it is aborted, no token, cursor move or node follows   *)
(* the report, and no document root is returned.                           *)
(***************************************************************************)
FailFast ==
    /\ [](reports # <<>> => phase = "aborted" /\ doc = NullNode /\ Len(reports) = 1)
    /\ [][reports # <<>>
          => UNCHANGED <<tokens, current, statements, doc, reports>>]_vars

\* the run of "@import(foo);": the import value is reported, the parser goes
\* on, builds the import node and returns the document root
ReportedAndReturned ==
    /\ source = SrcImportIdentifier
    /\ phase = "done"
    /\ reports = <<[line |-> 1, column |-> 9, message |-> "Unexpected import value"]>>
    /\ current = 5
    /\ Shape(doc).children = <<[nodeName |-> "ImportNode", importPath |-> "foo",
                                loc |-> [line |-> 1, column |-> 9],
                                parent |-> "DocumentBody"]>>

\* the nodes a node structurally contains; null and undefined are no nodes
IsNode(n) == n.nodeName \notin {"null", "undefined"}
ListNodes(list) == {list[i] : i \in 1..Len(list)}
Children(n) ==
    {c \in
        CASE n.nodeName = "DocumentBody" -> ListNodes(n.children)
          [] n.nodeName = "MemberExpression" -> {n.object, n.property}
          [] n.nodeName = "CallExpression" -> {n.callee} \cup ListNodes(n.args)
          [] n.nodeName \in {"BinaryExpression", "AssignmentExpression"} ->
                {n.left, n.right}
          [] n.nodeName = "UnaryExpression" -> {n.arg}
          [] n.nodeName = "DeclarationNode" -> {n.value, n.type}
          [] n.nodeName = "FunctionDeclaration" -> {n.params, n.body}
          [] n.nodeName = "Params" -> ListNodes(n.params)
          [] n.nodeName = "BlockExpression" -> ListNodes(n.statements)
          [] n.nodeName = "ReturnExpression" -> {n.argument}
          [] OTHER -> {}
     : IsNode(c)}

\* every node below n refers back to the node that contains it
RECURSIVE ParentsLinked(_)
ParentsLinked(n) ==
    \A c \in Children(n) : c.parent = n.nodeName /\ ParentsLinked(c)

(***************************************************************************)
(* C14  In every document root returned by parse the root's parent is null  *)
(* and every other node of the tree has a non-null parent back-reference   *)
(* to the node that structurally contains it: operands, declaration        *)
(* values, call arguments and the statements of a body block included.     *)
(***************************************************************************)
ParentBackReferences ==
    phase = "done" => doc.parent = "null" /\ ParentsLinked(doc)

\* the tree of "1 + 2 * 3": the statement refers back to the root, its operands
\* refer to nothing
OperandsWithoutParent ==
    /\ source = SrcPrecedence
    /\ phase = "done"
    /\ doc.parent = "null"
    /\ doc.children[1].nodeName = "BinaryExpression"
    /\ doc.children[1].parent = "DocumentBody"
    /\ doc.children[1].left.parent = "null"
    /\ doc.children[1].right.parent = "null"
    /\ doc.children[1].right.left.parent = "null"

\* the run with its scheduling: scan and parse are loops that keep running
FairSpec == Spec /\ WF_vars(Next)

\* the parser state at cursor c, nothing reported
CursorAt(c) == [current |-> c, reports |-> <<>>, halt |-> "none"]

\* one dispatch of scanNext consumes a character or aborts
ScannerAdvances ==
    (phase = "scan" /\ pos < Len(source)) =>
        With(scanNext(ScannerState), LAMBDA s : s.exited \/ s.pos > pos)

\* from every cursor of the token list: a statement (the body of buildAst's
\* loop and of parseBlock's loop, entered only before the end), an expression
\* (the body of finishCall's loop) and a parameter name (the first step of
\* the body of parseParamsList's loop) move the cursor forward or abort
ParserLoopsAdvance ==
    (phase = "parse" /\ current = 0) =>
        \A c \in 0..(Len(tokens) - 1) :
            /\ ~isAtEnd(CursorAt(c)) =>
                   With(parseStatement(CursorAt(c)), LAMBDA r :
                        Halted(r.p) \/ r.p.current > c)
            /\ With(parseExpression(CursorAt(c)), LAMBDA r :
                    Halted(r.p) \/ r.p.current > c)
            /\ With(consume(CursorAt(c), "IDENTIFIER"), LAMBDA p1 :
                    Halted(p1) \/ p1.current > c)

Terminated == phase \in {"done", "aborted"}

(***************************************************************************)
(* C15  Termination: for every finite source, scan followed by parse       *)
(* ends, returning a document root or aborting.  Every dispatch of the     *)
(* scanner consumes at least one character or aborts, and every iteration  *)
(* of the statement loop, the block loop, the argument loop and the        *)
(* parameter loop advances the token cursor or aborts.                     *)
(***************************************************************************)
Termination ==
    /\ <>Terminated
    /\ [](ScannerAdvances /\ ParserLoopsAdvance)
    /\ [](Terminated => (phase = "done") = (doc # NullNode))

\* the program with a function, a block of statements and a call with two
\* arguments has been scanned and parsed to the end
TerminationWitness ==
    /\ source = SrcProgram
    /\ phase = "done"
    /\ pos = Len(source)
    /\ current = Len(tokens) - 1
    /\ doc # NullNode

\* the tokens start with an expression of k tokens (an operand, or two operands
\* around a binary operator) and the token after it does not continue it
ExpressionEndsAt(k) ==
    /\ Len(tokens) > k
    /\ IsOperand(tokens[1])
    /\ k = 3 => tokens[2].type = "BIN_OP" /\ IsOperand(tokens[3])
    /\ tokens[k + 1].type \notin {"BIN_OP", "ASSIGN_OP"}
    /\ ~IsDelim(tokens[k + 1], "(") /\ ~IsDelim(tokens[k + 1], ".")

ExpressionOf(k) ==
    IF k = 1 THEN OperandShape(tokens[1])
    ELSE Bin(OperandShape(tokens[1]), tokens[2].value, OperandShape(tokens[3]))

\* the first statement was accepted as the expression of the first k tokens
AcceptedAt(k) ==
    /\ Len(statements) >= 1
    /\ FirstStatement = ExpressionOf(k)

\* the parser aborted at the token after the expression, naming it
RejectedAt(k) ==
    /\ phase = "aborted" /\ halt = "exit"
    /\ statements = <<>> /\ doc = NullNode
    /\ reports = <<[line |-> tokens[k + 1].line, column |-> tokens[k + 1].column,
                    message |-> "Expected ';' after expression"]>>

(***************************************************************************)
(* C16, as stated  An expression statement is accepted only if the token   *)
(* right after its expression is the delimiter ";"; for any other token,   *)
(* the EOF token included, the parser aborts and returns no document root. *)
(***************************************************************************)
SemicolonRequired ==
    \A k \in {1, 3} :
        (ScanReturned /\ FirstStatementOver /\ ExpressionEndsAt(k)) =>
            IF IsDelim(tokens[k + 1], ";") THEN AcceptedAt(k) ELSE RejectedAt(k)

(***************************************************************************)
(* C16  An expression statement is accepted if and only if the token right *)
(* after its expression is the delimiter ";" or the EOF token; for any     *)
(* other token the parser reports "Expected ';' after expression" at that  *)
(* token, aborts and returns no document root.                             *)
(***************************************************************************)
SemicolonOrEnd ==
    \A k \in {1, 3} :
        (ScanReturned /\ FirstStatementOver /\ ExpressionEndsAt(k)) =>
            IF IsDelim(tokens[k + 1], ";") \/ tokens[k + 1].type = "EOF"
            THEN AcceptedAt(k) ELSE RejectedAt(k)

\* "1 + 2" was accepted at the end of the input
SemicolonOrEndWitness ==
    /\ source = SrcNoSemicolon /\ phase = "done"
    /\ ExpressionEndsAt(3) /\ tokens[4].type = "EOF"
    /\ Shape(doc).children = <<Bin(Lit("number", "1"), "+", Lit("number", "2"))>>

\* the run is over the tokens of one "@import ..." directive
ImportDirective ==
    /\ ScanReturned /\ FirstStatementOver
    /\ tokens[1].type = "COMPILER_KEYWORD" /\ tokens[1].value = "import"

ImportNodeCreated == Len(statements) >= 1 /\ statements[1].nodeName = "ImportNode"

(***************************************************************************)
(* C17  An import node is produced only from the tokens "(" STRING ")" ";" *)
(* after @import, and its path is the text of that STRING token; when the  *)
(* token after "(" is not a STRING token, as in @import(foo);, the parser  *)
(* aborts and no import node is created.                                   *)
(***************************************************************************)
ImportNeedsString ==
    ImportDirective =>
        /\ ImportNodeCreated =>
              /\ Len(tokens) >= 5
              /\ IsDelim(tokens[2], "(") /\ tokens[3].type = "STRING"
              /\ IsDelim(tokens[4], ")") /\ IsDelim(tokens[5], ";")
              /\ statements[1].importPath = tokens[3].value
        /\ (Len(tokens) >= 3 /\ IsDelim(tokens[2], "(") /\ tokens[3].type # "STRING") =>
              phase = "aborted" /\ ~ImportNodeCreated

\* @import(foo); gave an import node whose path is the identifier foo
ImportOfIdentifier ==
    /\ ImportDirective
    /\ Len(tokens) = 6 /\ tokens[3].type = "IDENTIFIER"
    /\ ImportNodeCreated
    /\ statements[1].importPath = "foo"
    /\ phase = "done" /\ doc.children[1].nodeName = "ImportNode"

\* the directive names of the documentation
DirectiveSet == {"import", "const", "typeOf", "func", "while", "for"}

\* the scanner has dispatched on the "@" at the start of the source "@name"
DirectiveScanned(name) ==
    source = <<"@">> \o name /\ (phase # "scan" \/ pos > 0)

\* scanning aborted at the directive, naming it at the "@"
NotACompilerKeyword ==
    /\ phase = "aborted" /\ tokens = <<>>
    /\ reports = <<[line |-> 1, column |-> 1,
                    message |-> "Expected compiler keyword after @: not a compiler keyword"]>>

(***************************************************************************)
(* C18  Directive keywords form a closed set: after "@" the scanner emits  *)
(* a COMPILER_KEYWORD token if and only if the alphanumeric run that       *)
(* follows is one of import, const, typeOf, func, while, for; for any      *)
(* other run, constructor and toString included, scanning aborts with the  *)
(* "not a compiler keyword" error, and for none of the six it aborts.      *)
(***************************************************************************)
ClosedDirectiveSet ==
    \A name \in DirectiveNames :
        DirectiveScanned(name) =>
            IF Cat(name) \in DirectiveSet
            THEN /\ Len(tokens) >= 1
                 /\ tokens[1] = Token(1, 1, "COMPILER_KEYWORD", Cat(name))
            ELSE NotACompilerKeyword

\* "@constructor" was scanned to a COMPILER_KEYWORD token and handed to the parser
ConstructorIsDirective ==
    /\ source = <<"@", "c", "o", "n", "s", "t", "r", "u", "c", "t", "o", "r">>
    /\ phase = "parse"
    /\ tokens = <<Token(1, 1, "COMPILER_KEYWORD", "constructor"),
                  Token(13, 1, "EOF", "")>>
    /\ reports = <<>>

(***************************************************************************)
(* C19  The source form @while (cond) |capture| { body } scans and parses  *)
(* to a while node that owns the condition expression, the capture as a    *)
(* single primary expression, and the body block; without the |capture|    *)
(* part the capture is null.                                               *)
(***************************************************************************)
WhileLoop ==
    (source \in {SrcWhile, SrcWhileNoCapture} /\ RunOver) =>
        /\ phase = "done"
        /\ Len(doc.children) = 1
        /\ doc.children[1].nodeName = "WhileExpression"
        /\ Shape(doc.children[1].condition) = Reg("a")
        /\ doc.children[1].capture =
              IF source = SrcWhile THEN PrimaryExpression("Identifier", "b",
                                                          [line |-> 1, column |-> 14])
              ELSE NullNode
        /\ doc.children[1].body.nodeName = "BlockExpression"
        /\ doc.children[1].body.statements = <<>>

\* the scan of "@while ($a) |b| { }" stopped at the directive name: no token
\* was produced and the parser never ran
WhileIsNoDirective ==
    /\ source = SrcWhile
    /\ phase = "aborted" /\ halt = "exit"
    /\ pos = 6 /\ tokens = <<>> /\ current = 0 /\ statements = <<>>
    /\ reports = <<[line |-> 1, column |-> 1,
                    message |-> "Expected compiler keyword after @: not a compiler keyword"]>>

(***************************************************************************)
(* C20  finishCall consumes the tokens from the call's opening "(" through *)
(* its own matching ")" and nothing else, also when an argument is itself  *)
(* a call with arguments: "f(g(1)); $x = 1;" parses to two top-level       *)
(* statements, the call of f with the single argument g(1) and then the    *)
(* declaration of x.                                                       *)
(***************************************************************************)
NestedCallArguments ==
    (source = SrcNestedCall /\ RunOver) =>
        /\ phase = "done"
        /\ Shape(doc).children =
              <<Call(Id("f"), <<Call(Id("g"), <<Lit("number", "1")>>)>>),
                Decl("x", Lit("number", "1"), FALSE, UndefinedNode)>>

\* in "f(g(1)); $x = 1;" the inner call took both ")" and the outer call took
\* the ";": the statement ends before $x, where a ";" is demanded
NestedCallOverruns ==
    /\ source = SrcNestedCall
    /\ phase = "aborted" /\ halt = "exit"
    /\ current = 8 /\ tokens[current + 1].type = "V_REGISTER"
    /\ statements = <<>>
    /\ reports = <<[line |-> 1, column |-> 10,
                    message |-> "Expected ';' after expression"]>>

\* the parser, not the scanner, ended the run
ParserAborted ==
    phase = "aborted" /\ tokens # <<>> /\ tokens[Len(tokens)].type = "EOF"

\* the last report names the position of the token at the cursor or of the
\* token just consumed
ReportAtCursor ==
    /\ reports # <<>>
    /\ \E i \in {current, current + 1} \cap (1..Len(tokens)) :
          /\ reports[Len(reports)].line = tokens[i].line
          /\ reports[Len(reports)].column = tokens[i].column

(***************************************************************************)
(* C21  Every parser failure goes through the diagnostic reporter: for     *)
(* every malformed token sequence the abort is preceded by a reportError   *)
(* call whose line and column are those of the offending token, an         *)
(* unexpected token in primary-expression position, a missing property or  *)
(* parameter name and the unimplemented typeOf directive included.         *)
(***************************************************************************)
EveryFailureReported ==
    ParserAborted => halt = "exit" /\ ReportAtCursor

\* "b = ;": the ";" in primary-expression position ended the run by an
\* exception, and nothing was reported
ThrownWithoutReport ==
    /\ source = <<"b", " ", "=", " ", ";", " ">>
    /\ ParserAborted
    /\ halt = "throw"
    /\ current = 2 /\ IsDelim(tokens[3], ";")
    /\ reports = <<>>

\* the node kinds the expression grammar builds
ExpressionNodeNames ==
    {"LiteralNode", "PrimaryExpression", "MemberExpression", "CallExpression",
     "BinaryExpression", "UnaryExpression", "AssignmentExpression"}

(***************************************************************************)
(* C22  The value of an untyped declaration "$name = ..." is always an     *)
(* expression node: a statement form in value position (a return           *)
(* statement, a directive, a nested "$r = ..." declaration) is never       *)
(* accepted as a declaration value.                                        *)
(***************************************************************************)
DeclarationValueIsExpression ==
    \A i \in 1..Len(statements) :
        statements[i].nodeName = "DeclarationNode" =>
            statements[i].value.nodeName \in ExpressionNodeNames

\* "$a = return 1;" was accepted: the declaration of a holds a return statement
ReturnAsDeclarationValue ==
    /\ source = SrcDeclareReturn
    /\ phase = "done"
    /\ Len(doc.children) = 1
    /\ doc.children[1].nodeName = "DeclarationNode"
    /\ doc.children[1].name = "a"
    /\ doc.children[1].value.nodeName = "ReturnExpression"
    /\ Shape(doc.children[1].value.argument) = Lit("number", "1")
    /\ reports = <<>>

\* the number of source characters of a token's lexeme that lies on one line
Width(tok) ==
    CASE tok.type \in {"V_REGISTER", "COMPILER_KEYWORD"} -> Len(tok.value) + 1
      [] tok.type = "STRING" -> Len(tok.value) + 2
      [] OTHER -> Len(tok.value)

\* token i is a "." written directly after the identifier or register before it
MemberDotAt(i) ==
    /\ i \in 2..Len(tokens)
    /\ IsDelim(tokens[i], ".")
    /\ tokens[i - 1].type \in {"IDENTIFIER", "V_REGISTER"}
    /\ tokens[i - 1].line = tokens[i].line
    /\ tokens[i - 1].column + Width(tokens[i - 1]) = tokens[i].column

\* after the "." at i comes a segment token of one of the kinds, written
\* directly after it, or the scan has aborted at the character after the "."
SegmentAfter(i, kinds) ==
    IF i = Len(tokens)
    THEN /\ phase = "aborted"
         /\ reports = <<[line |-> tokens[i].line, column |-> tokens[i].column + 1,
                         message |-> "Expected identifier after ."]>>
         /\ ~isAlphaNumeric(scanPeek(ScannerState, 0))
    ELSE /\ tokens[i + 1].type \in kinds
         /\ tokens[i + 1].line = tokens[i].line
         /\ tokens[i + 1].column = tokens[i].column + 1

(***************************************************************************)
(* C23  Whenever an IDENTIFIER or V_REGISTER token is directly followed by *)
(* ".", the scanner emits for each chain segment a "." DELIMITER token     *)
(* followed by an IDENTIFIER token, never a BOOLEAN or KEYWORD token, also *)
(* for segments spelled true, false or return, and aborts if the character *)
(* after a "." is not alphanumeric.                                        *)
(***************************************************************************)
MemberSegmentsAreIdentifiers ==
    \A i \in 1..Len(tokens) : MemberDotAt(i) => SegmentAfter(i, {"IDENTIFIER"})

\* the segment of "$a.true;" is a BOOLEAN token
BooleanSegment ==
    /\ source = SrcMemberTrue
    /\ Len(tokens) >= 3
    /\ MemberDotAt(2)
    /\ tokens[1] = Token(1, 1, "V_REGISTER", "a")
    /\ tokens[3] = Token(4, 1, "BOOLEAN", "true")
    /\ phase = "scan"

\* the lexeme of the token starts at character i of the source: the opening
\* quote of a string, the sigil of a register or directive, the ":" of a type
\* annotation, otherwise the token's text
StartsLexemeAt(tok, i) ==
    CASE tok.type = "STRING" ->
            source[i] \in {"\"", "'"} /\ TextAt(i + 1, Len(tok.value)) = tok.value
      [] tok.type = "V_REGISTER" ->
            source[i] = "$" /\ TextAt(i + 1, Len(tok.value)) = tok.value
      [] tok.type = "COMPILER_KEYWORD" ->
            source[i] = "@" /\ TextAt(i + 1, Len(tok.value)) = tok.value
      [] tok.type = "TYPE_DECL" -> source[i] = ":"
      [] OTHER -> TextAt(i, Len(tok.value)) = tok.value

\* the token's line and column are those of a character where its lexeme starts
PositionedAtLexeme(tok) ==
    \E i \in 1..Len(source) :
        /\ LineAt(i) = tok.line
        /\ ColumnAt(i) = tok.column
        /\ StartsLexemeAt(tok, i)

(***************************************************************************)
(* C24  Every non-EOF token's line and column are the 1-based line and     *)
(* column of the first source character of its lexeme, for every token     *)
(* kind, TYPE_DECL tokens and V_REGISTER tokens with a type annotation     *)
(* included, also when newlines occur inside the annotation.               *)
(***************************************************************************)
TokenPositions ==
    \A k \in 1..Len(tokens) :
        tokens[k].type # "EOF" => PositionedAtLexeme(tokens[k])

\* "$a:<newline>i32 = 5;": the annotation that starts at 1:3 is placed at 2:3
\* and the register that starts at 1:1 at 2:1
AnnotationOnNextLine ==
    /\ source = SrcTypedNewline
    /\ Len(tokens) >= 2
    /\ tokens[1] = Token(3, 2, "TYPE_DECL", "i32")
    /\ tokens[2] = Token(1, 2, "V_REGISTER", "a")
    /\ source[1] = "$" /\ LineAt(1) = 1
    /\ source[3] = ":" /\ LineAt(3) = 1

\* the last character of the maximal run of decimal digits that starts at
\* character i (i - 1 when character i is no digit)
DigitRunEnd(i) ==
    CHOOSE j \in (i - 1)..Len(source) :
        /\ \A k \in i..j : isDigit(source[k])
        /\ j = Len(source) \/ ~isDigit(source[j + 1])

\* the "." after character e starts a fraction: a digit follows it
FractionAfter(e) ==
    e + 2 <= Len(source) /\ source[e + 1] = "." /\ isDigit(source[e + 2])

\* the last character of the decimal literal that starts at character i
NumberEnd(i) ==
    IF FractionAfter(DigitRunEnd(i)) THEN DigitRunEnd(DigitRunEnd(i) + 2)
    ELSE DigitRunEnd(i)

\* the scanner is about to dispatch on a digit that starts no radix literal
AtDecimalNumber ==
    /\ phase = "scan"
    /\ pos < Len(source)
    /\ isDigit(source[pos + 1])
    /\ ~(/\ source[pos + 1] = "0"
         /\ pos + 2 <= Len(source)
         /\ source[pos + 2] \in {"x", "X", "b", "B", "o", "O"})

(***************************************************************************)
(* C25  For a lexeme that starts with a digit and has no radix prefix the  *)
(* scanner emits exactly one NUMBER token whose text is the maximal digit  *)
(* run, extended by "." and a further maximal digit run only when the "."  *)
(* is directly followed by a digit.  A "." not followed by a digit is      *)
(* left to be scanned as a separate DELIMITER token.  No FLOAT token is    *)
(* ever emitted.                                                           *)
(***************************************************************************)
NumberScanning ==
    /\ \A k \in 1..Len(tokens) : tokens[k].type # "FLOAT"
    /\ AtDecimalNumber =>
          With(scanNext(ScannerState), LAMBDA s :
              /\ ~s.exited
              /\ s.pos = NumberEnd(pos + 1)
              /\ s.tokens = Append(tokens,
                                   Token(column, line, "NUMBER",
                                         TextAt(pos + 1, NumberEnd(pos + 1) - pos)))
              /\ (s.pos < Len(source) /\ source[s.pos + 1] = ".") =>
                    With(scanNext(s), LAMBDA s2 :
                        /\ Len(s2.tokens) >= Len(s.tokens) + 1
                        /\ s2.tokens[Len(s.tokens) + 1] =
                              Token(s.column, s.line, "DELIMITER", ".")))

\* "1.a" was scanned to the number 1 and a separate "."
NumberScanningWitness ==
    /\ source = <<"1", ".", "a">>
    /\ Len(tokens) >= 2
    /\ tokens[1] = Token(1, 1, "NUMBER", "1")
    /\ tokens[2] = Token(2, 1, "DELIMITER", ".")

\* the cursor (0-based) of the EOF token
EofIndex == Len(tokens) - 1

\* the parser holds the scanned tokens
ParserHoldsTokens == phase \in {"parse", "done"} \/ ParserAborted

\* from cursor c: advance() steps by one, and not at all on the EOF token; the
\* helpers built on it step by at most one; a statement and an expression end
\* at a cursor between c and the EOF token
CursorMovesFrom(c) ==
    /\ advance(CursorAt(c)).current = IF tokens[c + 1].type = "EOF" THEN c ELSE c + 1
    /\ \A type \in {"DELIMITER", "IDENTIFIER", "V_REGISTER", "ASSIGN_OP"} :
          /\ match(CursorAt(c), type).current \in {c, c + 1} \cap (0..EofIndex)
          /\ consume(CursorAt(c), type).current \in {c, c + 1} \cap (0..EofIndex)
          /\ \A value \in {";", "(", ")", "="} :
                consumeValue(CursorAt(c), type, "", value).current
                    \in {c, c + 1} \cap (0..EofIndex)
    /\ peek(CursorAt(c), 1) = IF c + 2 <= Len(tokens) THEN tokens[c + 2] ELSE NullToken
    /\ With(parseStatement(CursorAt(c)), LAMBDA r : r.p.current \in c..EofIndex)
    /\ With(parseExpression(CursorAt(c)), LAMBDA r : r.p.current \in c..EofIndex)

(***************************************************************************)
(* C26  Throughout a parse the cursor stays within 0 .. the index of the   *)
(* EOF token and never decreases; every change is an increment by one      *)
(* made by advance(), which leaves the cursor unchanged once it is on the  *)
(* EOF token; peek(1) never moves the cursor.                              *)
(***************************************************************************)
CursorInvariant ==
    /\ [](ParserHoldsTokens => current \in 0..EofIndex)
    /\ []((phase = "parse" /\ current = 0) => \A c \in 0..EofIndex : CursorMovesFrom(c))
    /\ [][current' >= current]_vars

\* the parse of "1 + 2" ended with the cursor on the EOF token, where the
\* demanded ";" was taken as present and advance() did not move
CursorInvariantWitness ==
    /\ source = SrcNoSemicolon
    /\ phase = "done"
    /\ current = EofIndex /\ current = 3
    /\ advance(ParserState).current = current

ComparisonSymbols == {"==", "!=", ">=", "<="}

\* a node and every node below it
RECURSIVE Descendants(_)
Descendants(n) == {n} \cup UNION {Descendants(c) : c \in Children(n)}

\* every node of the statements parsed so far
ParsedNodes == UNION {Descendants(statements[i]) : i \in 1..Len(statements)}

\* the scanner is about to dispatch on the first character of a comparison symbol
AtComparisonSymbol ==
    /\ phase = "scan"
    /\ pos + 2 <= Len(source)
    /\ TextAt(pos + 1, 2) \in ComparisonSymbols

(***************************************************************************)
(* C27  The lexemes "==", "!=", ">=" and "<=" are always emitted as        *)
(* ASSIGN_OP tokens and never as BIN_OP tokens; the only two-character     *)
(* BIN_OP tokens are "&&" and "||".  parseBinary never builds a binary     *)
(* node with one of the four, and "a == b;" parses to an assignment node   *)
(* with operator "==".                                                     *)
(***************************************************************************)
ComparisonIsAssignOp ==
    /\ \A k \in 1..Len(tokens) :
          tokens[k].type = "BIN_OP" =>
              /\ tokens[k].value \notin ComparisonSymbols
              /\ Len(tokens[k].value) = 2 => tokens[k].value \in {"&&", "||"}
    /\ AtComparisonSymbol =>
          With(scanNext(ScannerState), LAMBDA s :
              /\ ~s.exited
              /\ s.pos = pos + 2
              /\ s.tokens = Append(tokens, Token(column, line, "ASSIGN_OP",
                                                 TextAt(pos + 1, 2))))
    /\ \A n \in ParsedNodes :
          n.nodeName = "BinaryExpression" => n.operator \notin ComparisonSymbols
    /\ \A op \in ComparisonLexemes :
          (source = <<"a", " ">> \o op \o <<" ", "b", ";">> /\ RunOver) =>
              /\ phase = "done"
              /\ Shape(doc).children = <<Asg(Id("a"), Cat(op), Id("b"))>>

\* "a == b;" was parsed to the assignment node a == b
ComparisonIsAssignOpWitness ==
    /\ source = <<"a", " ", "=", "=", " ", "b", ";">>
    /\ phase = "done"
    /\ tokens[2] = Token(3, 1, "ASSIGN_OP", "==")
    /\ Shape(doc).children = <<Asg(Id("a"), "==", Id("b"))>>

\* the tokens at cursor c are a register and an assignment operator other than "="
RegisterThenCompoundAt(c) ==
    /\ c + 2 <= Len(tokens)
    /\ tokens[c + 1].type = "V_REGISTER"
    /\ tokens[c + 2].type = "ASSIGN_OP" /\ tokens[c + 2].value # "="

\* the tokens at cursor c are: identifier, assignment operator, operand, ";"
IdentifierAssignmentAt(c) ==
    /\ c + 4 <= Len(tokens)
    /\ tokens[c + 1].type = "IDENTIFIER"
    /\ tokens[c + 2].type = "ASSIGN_OP"
    /\ IsOperand(tokens[c + 3])
    /\ IsDelim(tokens[c + 4], ";")

ExpectedAssign(tok) ==
    [line |-> tok.line, column |-> tok.column, message |-> "Expected = after register"]

(***************************************************************************)
(* C28  A statement that starts with a V_REGISTER token directly followed  *)
(* by an ASSIGN_OP token whose text is not "=" ("$a += 1;", "$a == 1;")    *)
(* always aborts with the 'Expected "="' error and yields no node, while   *)
(* the same statement with an identifier in place of the register          *)
(* ("a += 1;") parses to an assignment node.                               *)
(***************************************************************************)
CompoundAssignToRegister ==
    /\ (phase = "parse" /\ current = 0) =>
          \A c \in 0..(Len(tokens) - 1) :
              /\ RegisterThenCompoundAt(c) =>
                    With(parseStatement(CursorAt(c)), LAMBDA r :
                        /\ r.p.halt = "exit"
                        /\ r.p.reports = <<ExpectedAssign(tokens[c + 2])>>
                        /\ r.p.current = c + 1
                        /\ r.node = NullNode)
              /\ IdentifierAssignmentAt(c) =>
                    With(parseStatement(CursorAt(c)), LAMBDA r :
                        /\ ~Halted(r.p)
                        /\ r.p.current = c + 4
                        /\ Shape(r.node) = Asg(Id(tokens[c + 1].value), tokens[c + 2].value,
                                               OperandShape(tokens[c + 3])))
    /\ (ParserHoldsTokens /\ FirstStatementOver /\ RegisterThenCompoundAt(0)) =>
          /\ phase = "aborted" /\ halt = "exit"
          /\ statements = <<>> /\ doc = NullNode
          /\ reports = <<ExpectedAssign(tokens[2])>>

\* "$a == 1;" aborted at the "==" with no node
CompoundAssignToRegisterWitness ==
    /\ source = SrcRegisterCompare
    /\ phase = "aborted"
    /\ RegisterThenCompoundAt(0) /\ tokens[2].value = "=="
    /\ current = 1 /\ statements = <<>>
    /\ reports = <<ExpectedAssign(tokens[2])>>

====
